---- MODULE Spec2Model ----
(***************************************************************************)
(* Connection lifecycle of aiobtclientrpc.RPCBase (src/aiobtclientrpc/     *)
(* _base.py) with the HTTP based adapters qBittorrent and Transmission.    *)
(*                                                                         *)
(* Callers are asyncio tasks of one event loop.  A step of the model is    *)
(* the code one task runs between two suspension points: acquiring the     *)
(* contended connection lock, `await client.post(...)` and                 *)
(* `await self._http_client.aclose()`.  Everything else is synchronous.    *)
(***************************************************************************)
EXTENDS Integers, Sequences, FiniteSets

\* Bounds of the model: callers of the scenarios with one kind of operation,
\* callers that mix operations freely, operations the latter issue in all,
\* property assignments, operations of the caller of the `async with` scenario
NumTasks == 4
NumWorkers == 2
MaxOps == 3
MaxMutations == 1
MaxContextOps == 8
NumCallers == 2
MaxTimeoutOps == 4
MaxPortOps == 3

Tasks == 1..NumTasks
Workers == 1..NumWorkers

\* _utils.ConnectionStatus
ConnectionStatus == {"connecting", "connected", "disconnected"}

\* The three connection events a callback can be registered for
CallbackNames == {"connecting", "connected", "disconnected"}

\* The adapters whose _connect/_disconnect/_call go through _send_post_request
Adapters == {"qbittorrent", "transmission"}

\* str(RPCBase.default_timeout) and one custom value
default_timeout == "60.0"
TimeoutValues == {default_timeout, "5.0"}

\* The events a handler is set for
Events == {"torrent_added", "torrent_removed"}

\* Arguments a caller passes to call()
CallArgs == {"app/version", "torrents/info"}

None == "none"
NoExc == <<"none", "">>
Ok == <<"ok", "">>
\* What the adapter methods raise on their own (_errors.ConnectionError from
\* catch_connection_exceptions, _errors.RPCError from a bad response)
AdapterErrors == {<<"ConnectionError", "Connection refused">>, <<"RPCError", "No dice">>}
\* What async_timeout.timeout() raises when the deadline expires
AsyncioTimeout == <<"asyncio.TimeoutError", "">>
AttributeError(name) == <<"AttributeError", name>>

\* str(n) of a small natural number
Decimal(n) == <<"0", "1", "2", "3", "4", "5", "6", "7", "8", "9">>[n + 1]

(***************************************************************************)
(* Python values assigned to properties, and the conversions bool(), int(), *)
(* float(), str() and repr() the setters apply to them                      *)
(***************************************************************************)

\* A value is its type, a number num * 10**exp, and the characters of a string
Py(type, num, exp, text) == [type |-> type, num |-> num, exp |-> exp, text |-> text]

PyNone == Py("NoneType", 0, 0, <<>>)

PyBool(b) == Py("bool", IF b THEN 1 ELSE 0, 0, <<>>)

\* The int num * 10**exp
PyInt(num, exp) == Py("int", num, exp, <<>>)

\* The float num * 10**exp
PyFloat(num, exp) == Py("float", num, exp, <<>>)

\* float('inf') and float('nan')
PyInf == Py("float", 1, 0, <<"inf">>)

PyNan == Py("float", 1, 0, <<"nan">>)

\* A str, as the sequence of its characters
PyStr(text) == Py("str", 0, 0, text)

\* A list of num elements
PyList(num) == Py("list", num, 0, <<>>)

\* A builtin exception raised by a conversion
PyRaise(type) == Py(type, 0, 0, <<>>)

IsException(v) == v.type \in {"TypeError", "ValueError", "OverflowError"}

Abs(n) == IF n < 0 THEN 0 - n ELSE n

RECURSIVE Pow10(_)
Pow10(k) == IF k = 0 THEN 1 ELSE 10 * Pow10(k - 1)

\* Number of decimal digits of a natural number
RECURSIVE NumDigits(_)
NumDigits(n) == IF n < 10 THEN 1 ELSE 1 + NumDigits(n \div 10)

\* str(n) of an int
RECURSIVE StrNat(_)
StrNat(n) == IF n < 10 THEN Decimal(n) ELSE StrNat(n \div 10) \o Decimal(n % 10)

\* The characters of str(n)
RECURSIVE Chars(_)
Chars(n) ==
    IF n < 0 THEN <<"-">> \o Chars(0 - n)
    ELSE IF n < 10 THEN <<Decimal(n)>>
    ELSE Chars(n \div 10) \o <<Decimal(n % 10)>>

\* bool(v): the truth value `if v` and `not v` test
Truthy(v) ==
    CASE v.type = "NoneType" -> FALSE
      [] v.type \in {"bool", "int", "float", "list"} -> v.num # 0
      [] v.type = "str" -> v.text # <<>>

\* str.strip() of a sequence of characters
RECURSIVE Strip(_)
Strip(text) ==
    IF text = <<>> THEN text
    ELSE IF Head(text) = " " THEN Strip(Tail(text))
    ELSE IF text[Len(text)] = " " THEN Strip(SubSeq(text, 1, Len(text) - 1))
    ELSE text

Digits == {Decimal(d) : d \in 0..9}

IsDigits(text) == text # <<>> /\ \A i \in 1..Len(text) : text[i] \in Digits

DigitValue(c) == CHOOSE d \in 0..9 : Decimal(d) = c

RECURSIVE ToNat(_)
ToNat(text) ==
    IF text = <<>> THEN 0
    ELSE 10 * ToNat(SubSeq(text, 1, Len(text) - 1)) + DigitValue(text[Len(text)])

Signed(text) == text # <<>> /\ Head(text) \in {"-", "+"}

Unsigned(text) == IF Signed(text) THEN Tail(text) ELSE text

Sign(text) == IF text # <<>> /\ Head(text) = "-" THEN 0 - 1 ELSE 1

\* int(str): blanks around, a sign, decimal digits
ParseInt(text) ==
    LET s == Strip(text)
    IN IF IsDigits(Unsigned(s)) THEN PyInt(Sign(s) * ToNat(Unsigned(s)), 0) ELSE PyRaise("ValueError")

\* float(str): as int(str), or digits with one point, or inf or nan
\* (literals with an exponent are not among the values assigned)
ParseFloat(text) ==
    LET s == Strip(text)
        u == Unsigned(s)
        dots == {i \in 1..Len(u) : u[i] = "."}
        dot == CHOOSE i \in dots : TRUE
        whole == SubSeq(u, 1, dot - 1)
        frac == SubSeq(u, dot + 1, Len(u))
    IN IF IsDigits(u) THEN PyFloat(Sign(s) * ToNat(u), 0)
       ELSE IF u = <<"i", "n", "f">> THEN PyInf
       ELSE IF u = <<"n", "a", "n">> THEN PyNan
       ELSE IF /\ Cardinality(dots) = 1
               /\ IsDigits(whole \o frac)
       THEN PyFloat(Sign(s) * ToNat(whole \o frac), 0 - Len(frac))
       ELSE PyRaise("ValueError")

\* Largest decimal exponent of a float (sys.float_info.max_10_exp)
FloatMax10Exp == 308

\* float(v).  An int of an order of magnitude above FloatMax10Exp is too
\* large; the ints assigned have a one-digit num where exp is not 0.
float(v) ==
    CASE v.type \in {"NoneType", "list"} -> PyRaise("TypeError")
      [] v.type = "bool" -> PyFloat(v.num, 0)
      [] v.type = "int" ->
            IF v.num # 0 /\ NumDigits(Abs(v.num)) - 1 + v.exp > FloatMax10Exp
            THEN PyRaise("OverflowError")
            ELSE PyFloat(v.num, v.exp)
      [] v.type = "float" -> v
      [] v.type = "str" -> ParseFloat(v.text)

\* int(v): a float is truncated towards zero
int(v) ==
    CASE v.type \in {"NoneType", "list"} -> PyRaise("TypeError")
      [] v.type = "bool" -> PyInt(v.num, 0)
      [] v.type = "int" -> v
      [] v.type = "float" ->
            IF v.text = <<"inf">> THEN PyRaise("OverflowError")
            ELSE IF v.text = <<"nan">> THEN PyRaise("ValueError")
            ELSE IF v.exp >= 0 THEN PyInt(v.num, v.exp)
            ELSE PyInt((IF v.num < 0 THEN 0 - 1 ELSE 1) * (Abs(v.num) \div Pow10(0 - v.exp)), 0)
      [] v.type = "str" -> ParseInt(v.text)

\* str(v) of None, of a bool, of the int v.num * 10**v.exp and of a str
str(v) ==
    CASE v.type = "NoneType" -> PyStr(<<"N", "o", "n", "e">>)
      [] v.type = "bool" -> PyStr(IF v.num = 1 THEN <<"T", "r", "u", "e">>
                                  ELSE <<"F", "a", "l", "s", "e">>)
      [] v.type = "int" ->
            PyStr(Chars(v.num) \o (IF v.num = 0 THEN <<>> ELSE [i \in 1..v.exp |-> "0"]))
      [] v.type = "str" -> v

RECURSIVE Zeros(_)
Zeros(k) == IF k = 0 THEN "" ELSE "0" \o Zeros(k - 1)

\* The digits after the point: k of them, without trailing zeros but one
RECURSIVE Fraction(_, _)
Fraction(n, k) ==
    IF k > 1 /\ n % 10 = 0 THEN Fraction(n \div 10, k - 1)
    ELSE Zeros(k - NumDigits(n)) \o StrNat(n)

\* repr(f) of a float, as an f-string prints it
repr(f) ==
    LET sign == IF f.num < 0 THEN "-" ELSE ""
        n == Abs(f.num)
    IN IF f.text # <<>> THEN f.text[1]
       ELSE IF f.exp < 0
       THEN sign \o StrNat(n \div Pow10(0 - f.exp)) \o "." \o Fraction(n % Pow10(0 - f.exp), 0 - f.exp)
       ELSE IF NumDigits(n) + f.exp <= 16
       THEN sign \o StrNat(n) \o Zeros(f.exp) \o ".0"
       ELSE sign \o StrNat(n) \o "e+" \o StrNat(f.exp)

(***************************************************************************)
(* Strings as sequences of characters, and what URL.__init__ does to one:  *)
(* re.search, str.startswith, str.split, urllib.parse.urlsplit and          *)
(* os.path.normpath.  A value used more than once is bound as the element  *)
(* of a one-element set, {F(x) : x \in {value}}, and so evaluated once.     *)
(***************************************************************************)

LowerCase == <<"a", "b", "c", "d", "e", "f", "g", "h", "i", "j", "k", "l", "m",
               "n", "o", "p", "q", "r", "s", "t", "u", "v", "w", "x", "y", "z">>

UpperCase == <<"A", "B", "C", "D", "E", "F", "G", "H", "I", "J", "K", "L", "M",
               "N", "O", "P", "Q", "R", "S", "T", "U", "V", "W", "X", "Y", "Z">>

Range(f) == {f[i] : i \in DOMAIN f}

\* [a-zA-Z0-9]
Alnum == Range(LowerCase) \cup Range(UpperCase) \cup Digits

\* [a-zA-Z0-9\.]
AlnumDot == Alnum \cup {"."}

\* The characters urlsplit() accepts in a scheme (scheme_chars)
SchemeChars == Alnum \cup {"+", "-", "."}

AllIn(text, class) == \A i \in 1..Len(text) : text[i] \in class

\* text[i:] of Python, for the 1-based index i
From(text, i) == SubSeq(text, i, Len(text))

\* str.startswith
StartsWith(text, prefix) ==
    Len(text) >= Len(prefix) /\ SubSeq(text, 1, Len(prefix)) = prefix

\* str.lower()
lower(text) ==
    [i \in 1..Len(text) |->
        IF text[i] \in Range(UpperCase)
        THEN LowerCase[CHOOSE k \in DOMAIN UpperCase : UpperCase[k] = text[i]]
        ELSE text[i]]

\* 1-based index of the first character of text that is in class, 0 if none (str.find)
Find(text, class) ==
    IF \E i \in 1..Len(text) : text[i] \in class
    THEN CHOOSE i \in 1..Len(text) : text[i] \in class /\ \A j \in 1..(i - 1) : text[j] \notin class
    ELSE 0

\* 1-based index of the last character c of text, 0 if none (str.rfind)
FindLast(text, c) ==
    IF \E i \in 1..Len(text) : text[i] = c
    THEN CHOOSE i \in 1..Len(text) : text[i] = c /\ \A j \in (i + 1)..Len(text) : text[j] # c
    ELSE 0

\* The scheme 'file'
File == PyStr(<<"f", "i", "l", "e">>)

\* str(x) if x else None, for a str x or None
OrNone(v) == IF Truthy(v) THEN v ELSE PyNone

\* re.search(r'^[a-zA-Z0-9]+://', url)
HasScheme(url) ==
    \E k \in 1..Len(url) :
        /\ AllIn(SubSeq(url, 1, k), Alnum)
        /\ StartsWith(From(url, k + 1), <<":", "/", "/">>)

\* re.search(r'^[a-zA-Z0-9\.]+:\d+(?:/|$)', text)
HostAndPort(text) ==
    \E i \in 2..Len(text), j \in 3..Len(text) :
        /\ i < j
        /\ AllIn(SubSeq(text, 1, i - 1), AlnumDot)
        /\ text[i] = ":"
        /\ IsDigits(SubSeq(text, i + 1, j))
        /\ (j = Len(text) \/ text[j + 1] = "/")

\* re.search(r'^(?:[a-zA-Z0-9\.]*:[a-zA-Z0-9\.]*@|)[a-zA-Z0-9\.]+:\d+(?:/|$)', url)
LooksLikeHostAndPort(url) ==
    \/ HostAndPort(url)
    \/ \E a, b \in 1..Len(url) :
          /\ a < b
          /\ AllIn(SubSeq(url, 1, a - 1), AlnumDot)
          /\ url[a] = ":"
          /\ AllIn(SubSeq(url, a + 1, b - 1), AlnumDot)
          /\ url[b] = "@"
          /\ HostAndPort(From(url, b + 1))

\* The scheme urlsplit() cuts off a url without brackets, and the rest: the
\* characters before the first colon if they begin with a letter and are
\* all scheme_chars
SplitScheme(url) ==
    CHOOSE r \in {(
        IF /\ colon > 1
           /\ url[1] \in Range(LowerCase) \cup Range(UpperCase)
           /\ AllIn(SubSeq(url, 1, colon - 1), SchemeChars)
        THEN [scheme |-> lower(SubSeq(url, 1, colon - 1)), rest |-> From(url, colon + 1)]
        ELSE [scheme |-> <<>>, rest |-> url]
        ) : colon \in {Find(url, {":"})}} : TRUE

\* _splitnetloc(url, 2) of urlsplit() if the rest begins with '//': the
\* netloc ends before the first '/', '?' or '#'
SplitNetloc(rest) ==
    CHOOSE r \in {(
        IF ~StartsWith(rest, <<"/", "/">>) THEN [netloc |-> <<>>, tail |-> rest]
        ELSE IF stop = 0 THEN [netloc |-> From(rest, 3), tail |-> <<>>]
        ELSE [netloc |-> SubSeq(rest, 3, stop + 1), tail |-> From(rest, stop + 2)]
        ) : stop \in {Find(From(rest, 3), {"/", "?", "#"})}} : TRUE

\* What urlsplit() leaves as path: query and fragment are cut off
SplitPath(tail) ==
    CHOOSE r \in {(
        IF cut = 0 THEN tail ELSE SubSeq(tail, 1, cut - 1)
        ) : cut \in {Find(tail, {"?", "#"})}} : TRUE

\* urllib.parse.urlsplit(url): scheme, netloc and path
urlsplit(url) ==
    CHOOSE r \in {(
        CHOOSE r2 \in {(
            [scheme |-> a.scheme, netloc |-> b.netloc, path |-> SplitPath(b.tail)]
            ) : b \in {SplitNetloc(a.rest)}} : TRUE
        ) : a \in {SplitScheme(url)}} : TRUE

\* SplitResult._userinfo: netloc.rpartition('@'), then userinfo.partition(':')
userinfo(netloc) ==
    CHOOSE r \in {(
        IF at = 0 THEN [username |-> PyNone, password |-> PyNone]
        ELSE CHOOSE r2 \in {(
            IF colon = 0 THEN [username |-> PyStr(info), password |-> PyNone]
            ELSE [username |-> PyStr(SubSeq(info, 1, colon - 1)),
                  password |-> PyStr(From(info, colon + 1))]
            ) : colon \in {Find(SubSeq(netloc, 1, at - 1), {":"})},
                info \in {SubSeq(netloc, 1, at - 1)}} : TRUE
        ) : at \in {FindLast(netloc, "@")}} : TRUE

\* SplitResult._hostinfo: netloc.rpartition('@')[2].partition(':')
hostinfo(netloc) ==
    CHOOSE r \in {(
        CHOOSE r2 \in {(
            IF colon = 0 THEN [hostname |-> info, port |-> <<>>]
            ELSE [hostname |-> SubSeq(info, 1, colon - 1), port |-> From(info, colon + 1)]
            ) : colon \in {Find(info, {":"})}} : TRUE
        ) : info \in {From(netloc, FindLast(netloc, "@") + 1)}} : TRUE

\* SplitResult.hostname: lowercased, None if empty
hostname(netloc) ==
    CHOOSE r \in {(
        IF h = <<>> THEN PyNone ELSE PyStr(lower(h))
        ) : h \in {hostinfo(netloc).hostname}} : TRUE

\* SplitResult.port: None, an int in 0..65535, or ValueError
splitport(netloc) ==
    CHOOSE r \in {(
        IF p = <<>> THEN PyNone
        ELSE IF ~IsDigits(p) THEN PyRaise("ValueError")
        ELSE IF ToNat(p) > 65535 THEN PyRaise("ValueError")
        ELSE PyInt(ToNat(p), 0)
        ) : p \in {hostinfo(netloc).port}} : TRUE

\* str.split(c)
RECURSIVE split(_, _)
split(text, c) ==
    CHOOSE r \in {(
        IF i = 0 THEN <<text>> ELSE <<SubSeq(text, 1, i - 1)>> \o split(From(text, i + 1), c)
        ) : i \in {Find(text, {c})}} : TRUE

\* c.join(comps)
RECURSIVE join(_, _)
join(comps, c) ==
    IF comps = <<>> THEN <<>>
    ELSE IF Len(comps) = 1 THEN comps[1]
    ELSE comps[1] \o <<c>> \o join(Tail(comps), c)

\* str.lstrip(c)
RECURSIVE lstrip(_, _)
lstrip(text, c) == IF text # <<>> /\ Head(text) = c THEN lstrip(Tail(text), c) ELSE text

\* The loop of posixpath.normpath over the components of the path
RECURSIVE new_comps(_, _, _)
new_comps(comps, new, initial_slashes) ==
    IF comps = <<>> THEN new
    ELSE CHOOSE r \in {(
        IF comp \in {<<>>, <<".">>} THEN new_comps(rest, new, initial_slashes)
        ELSE IF \/ comp # <<".", ".">>
                \/ (initial_slashes = 0 /\ new = <<>>)
                \/ (new # <<>> /\ new[Len(new)] = <<".", ".">>)
        THEN new_comps(rest, Append(new, comp), initial_slashes)
        ELSE IF new # <<>>
        THEN new_comps(rest, SubSeq(new, 1, Len(new) - 1), initial_slashes)
        ELSE new_comps(rest, new, initial_slashes)
        ) : comp \in {Head(comps)}, rest \in {Tail(comps)}} : TRUE

\* os.path.normpath(path) on POSIX
normpath(path) ==
    CHOOSE r \in {(
        CHOOSE r2 \in {(
            IF normal = <<>> THEN <<".">> ELSE normal
            ) : normal \in {[i \in 1..initial_slashes |-> "/"]
                            \o join(new_comps(split(path, "/"), <<>>, initial_slashes), "/")}} : TRUE
        ) : initial_slashes \in {
                IF ~StartsWith(path, <<"/">>) THEN 0
                ELSE IF StartsWith(path, <<"/", "/">>) /\ ~StartsWith(path, <<"/", "/", "/">>)
                THEN 2
                ELSE 1}} : TRUE

\* The dictionary `parsed` of URL.__init__(url, default_scheme): its values
\* are a str or None; exc is what the parsing raises
parse(url0, default_scheme) ==
    CHOOSE r \in {(
        IF StartsWith(url, <<"f", "i", "l", "e", ":", "/", "/">>)
        THEN [exc |-> NoExc, scheme |-> File, hostname |-> PyNone, port |-> PyNone,
              path |-> PyStr(From(url, 8)), username |-> PyNone, password |-> PyNone]
        ELSE CHOOSE r2 \in {(
            IF IsException(port)
            THEN [exc |-> <<"ValueError", "Invalid port">>, scheme |-> PyNone,
                  hostname |-> PyNone, port |-> PyNone, path |-> PyNone,
                  username |-> PyNone, password |-> PyNone]
            ELSE [exc |-> NoExc,
                  scheme |-> OrNone(PyStr(split_result.scheme)),
                  hostname |-> hostname(split_result.netloc),
                  port |-> IF Truthy(port) THEN str(port) ELSE PyNone,
                  path |-> IF split_result.path # <<>>
                           THEN PyStr(<<"/">> \o lstrip(normpath(split_result.path), "/"))
                           ELSE PyNone,
                  username |-> OrNone(info.username),
                  password |-> OrNone(info.password)]
            ) : split_result \in {urlsplit(url)},
                port \in {splitport(urlsplit(url).netloc)},
                info \in {userinfo(urlsplit(url).netloc)}} : TRUE
        ) : url \in {CHOOSE u \in {(
                        IF HasScheme(stripped) THEN stripped
                        ELSE IF LooksLikeHostAndPort(stripped)
                        THEN default_scheme \o <<":", "/", "/">> \o stripped
                        ELSE <<"f", "i", "l", "e", ":", "/", "/">> \o stripped
                        ) : stripped \in {Strip(url0)}} : TRUE}} : TRUE

VARIABLES
    status,         \* RPCBase._status
    lockOwner,      \* task holding RPCBase._connection_lock, 0 when free
    waiters,        \* FIFO of tasks suspended in _connection_lock.acquire()
    http_client,    \* RPCBase._http_client: client id, 0 when the attribute is absent
    invalidated,    \* RPCBase._http_client_is_invalidated
    clients,        \* clients[id]: endpoint version the client id was created for
    closed,         \* client ids aclose() was called on
    endpoint,       \* version of (url, proxy_url): bumped by every assignment
    timeout,        \* str(RPCBase.timeout)
    registered,     \* connection events with a callback (_on_<name> exists)
    adapter,        \* the concrete subclass
    op,             \* op[t]: the public method task t called
    fn,             \* fn[t]: RPCBase method whose frame task t executes
    step,           \* step[t]: adapter method in progress
    pc,             \* pc[t]: where task t is suspended
    exc,            \* exc[t]: exception kept across a suspension
    client,         \* client[t]: client id task t is using or closing
    args,           \* args[t]: arguments of call()
    result,         \* result[t]: how the finished operation ended
    rec,            \* rec[t]: events of the current operation of task t
    recording,      \* whether a recorder is attached (cbs in tests/base_test.py)
    observed,       \* what the recorder saw
    awaited,        \* awaited[t]: <<task, outcome>> of the _connect in flight when call() began
    stale,          \* clients that were cached when the endpoint changed while connected
    staleReturned,  \* _get_http_client returned a stale client
    mustReconnect,  \* mustReconnect[t]: call() of t began after such a change, before any _connect
    dirty,          \* endpoint changed while connected and no _connect began since
    scheme,         \* URL._scheme of rpc.url
    port,           \* URL._port of rpc.url: None or a str
    host,           \* URL._host of rpc.url: None or a str
    path,           \* URL._path of rpc.url: None or a str
    username,       \* URL._username of rpc.url: None or a str
    password,       \* URL._password of rpc.url: None or a str
    on_change,      \* URL._on_change of rpc.url: None or the callback
    proxy_url,      \* RPCBase._proxy_url: None or the attributes of the URL
    xmlrpc,         \* RtorrentRPC._xmlrpc: None when the attribute is absent
    http_headers,   \* RPCBase._http_headers: set of <<name, value>>
    posted,         \* posted[t]: the headers of each request the operation of task t sent
    event_handlers, \* RPCBase._event_handlers: per event, whether it is a key, and its list
    scgi,           \* one _ScgiTransportBase.request() generator and its connection
    protocol,       \* protocol[e]: the _subscribe and _unsubscribe calls made for event e, in order
    opsIssued,
    mutations

vars == <<status, lockOwner, waiters, http_client, invalidated, clients, closed,
          endpoint, timeout, registered, adapter, op, fn, step, pc, exc, client,
          args, result, rec, recording, observed, awaited, stale, staleReturned,
          mustReconnect, dirty, scheme, port, host, path, username, password,
          on_change, proxy_url, xmlrpc, http_headers, posted, event_handlers,
          scgi, protocol, opsIssued, mutations>>

\* The whole state as one record, so that synchronous code composes as functions
M == [status |-> status, lockOwner |-> lockOwner, waiters |-> waiters,
      http_client |-> http_client, invalidated |-> invalidated, clients |-> clients,
      closed |-> closed, endpoint |-> endpoint, timeout |-> timeout,
      registered |-> registered, adapter |-> adapter, op |-> op, fn |-> fn,
      step |-> step, pc |-> pc, exc |-> exc, client |-> client, args |-> args,
      result |-> result, rec |-> rec, recording |-> recording, observed |-> observed,
      awaited |-> awaited, stale |-> stale, staleReturned |-> staleReturned,
      mustReconnect |-> mustReconnect, dirty |-> dirty, scheme |-> scheme,
      port |-> port, host |-> host, path |-> path, username |-> username,
      password |-> password, on_change |-> on_change, proxy_url |-> proxy_url,
      xmlrpc |-> xmlrpc, http_headers |-> http_headers, posted |-> posted,
      event_handlers |-> event_handlers, scgi |-> scgi, protocol |-> protocol,
      opsIssued |-> opsIssued,
      mutations |-> mutations]

Commit(m) ==
    \E n \in {m} :
        /\ status' = n.status
        /\ lockOwner' = n.lockOwner
        /\ waiters' = n.waiters
        /\ http_client' = n.http_client
        /\ invalidated' = n.invalidated
        /\ clients' = n.clients
        /\ closed' = n.closed
        /\ endpoint' = n.endpoint
        /\ timeout' = n.timeout
        /\ registered' = n.registered
        /\ adapter' = n.adapter
        /\ op' = n.op
        /\ fn' = n.fn
        /\ step' = n.step
        /\ pc' = n.pc
        /\ exc' = n.exc
        /\ client' = n.client
        /\ args' = n.args
        /\ result' = n.result
        /\ rec' = n.rec
        /\ recording' = n.recording
        /\ observed' = n.observed
        /\ awaited' = n.awaited
        /\ stale' = n.stale
        /\ staleReturned' = n.staleReturned
        /\ mustReconnect' = n.mustReconnect
        /\ dirty' = n.dirty
        /\ scheme' = n.scheme
        /\ port' = n.port
        /\ host' = n.host
        /\ path' = n.path
        /\ username' = n.username
        /\ password' = n.password
        /\ on_change' = n.on_change
        /\ proxy_url' = n.proxy_url
        /\ xmlrpc' = n.xmlrpc
        /\ http_headers' = n.http_headers
        /\ posted' = n.posted
        /\ event_handlers' = n.event_handlers
        /\ scgi' = n.scgi
        /\ protocol' = n.protocol
        /\ opsIssued' = n.opsIssued
        /\ mutations' = n.mutations

\* Faulty variant: the port setter without `if not 1 <= port <= 65535`
PortSetterUnchecked(s, old, v) ==
    LET p == int(v)
    IN IF ~Truthy(v) \/ s = File THEN [port |-> PyNone, exc |-> NoExc]
       ELSE IF IsException(p) THEN [port |-> old, exc |-> <<"ValueError", "Invalid port">>]
       ELSE [port |-> str(p), exc |-> NoExc]

\* The port setter of URL: what self._port is afterwards and what is raised.
\* ok tells whether `not 1 <= port <= 65535` is false for the int p.
PortSetter(s, old, v) ==
    LET p == int(v)
        ok == /\ p.num >= 1
              /\ p.exp <= 4
              /\ p.num * Pow10(p.exp) <= 65535
    IN IF ~Truthy(v) \/ s = File THEN [port |-> PyNone, exc |-> NoExc]
       ELSE IF p.type \in {"ValueError", "TypeError"}
       THEN [port |-> old, exc |-> <<"ValueError", "Invalid port">>]
       ELSE IF p.type = "OverflowError"
       THEN [port |-> old, exc |-> <<"OverflowError", "cannot convert float infinity to integer">>]
       ELSE IF ~ok THEN [port |-> old, exc |-> <<"ValueError", "Invalid port">>]
       ELSE [port |-> str(p), exc |-> NoExc]

\* The scheme setter of URL: what self._scheme is afterwards
SchemeSetter(v) == PyStr(lower(str(v).text))

\* The host, username and password setters of URL: what the attribute is afterwards
HostSetter(s, v) == IF ~Truthy(v) \/ s = File THEN PyNone ELSE str(v)

\* The path setter of URL: what self._path is afterwards
PathSetter(v) == IF Truthy(v) THEN str(v) ELSE PyNone

\* default_url of the adapters: 'http://localhost:8080',
\* 'scgi://127.0.0.1:5000' and 'http://localhost:9091/transmission/rpc'
default_url(a) ==
    IF a = "rtorrent"
    THEN <<"s", "c", "g", "i", ":", "/", "/", "1", "2", "7", ".", "0", ".", "0", ".", "1", ":", "5", "0", "0", "0">>
    ELSE IF a = "qbittorrent"
    THEN <<"h", "t", "t", "p", ":", "/", "/", "l", "o", "c", "a", "l", "h", "o", "s", "t",
           ":", "8", "0", "8", "0">>
    ELSE <<"h", "t", "t", "p", ":", "/", "/", "l", "o", "c", "a", "l", "h", "o", "s", "t",
           ":", "9", "0", "9", "1", "/", "t", "r", "a", "n", "s", "m", "i", "s", "s", "i",
           "o", "n", "/", "r", "p", "c">>

\* The callback the adapter gives its URLs
InvalidateCallback == "_invalidate_http_client"

\* URL(url, on_change=...) with the default default_scheme 'http': what it
\* raises, or the attributes its six assignments leave
URLNew(url) ==
    CHOOSE new \in {(
        CHOOSE new2 \in {(
            [exc |-> IF parsed.exc # NoExc THEN parsed.exc ELSE p.exc,
             scheme |-> s,
             host |-> HostSetter(s, parsed.hostname),
             port |-> p.port,
             path |-> PathSetter(parsed.path),
             username |-> HostSetter(s, parsed.username),
             password |-> HostSetter(s, parsed.password)]
            ) : s \in {SchemeSetter(parsed.scheme)},
                p \in {PortSetter(SchemeSetter(parsed.scheme), PyNone, parsed.port)}} : TRUE
        ) : parsed \in {parse(url, <<"h", "t", "t", "p">>)}} : TRUE

\* rpc.url right after URL(u, on_change=self._invalidate_http_client), for a
\* u the constructor accepts
URLInit(u) ==
    \E new \in {URLNew(u)} :
        /\ new.exc = NoExc
        /\ scheme = new.scheme
        /\ host = new.host
        /\ port = new.port
        /\ path = new.path
        /\ username = new.username
        /\ password = new.password
        /\ on_change = InvalidateCallback

(***************************************************************************)
(* _ScgiTransportBase of _rtorrent.py: bytes are sequences of one-byte      *)
(* tokens; request() is a generator whose state is the record scgi          *)
(***************************************************************************)

CR == "CR"
LF == "LF"
NUL == "NUL"

\* b'\r\n\r\n'
headers_delim == <<CR, LF, CR, LF>>

\* bytes.find(): the 1-based position of the first occurrence, 0 when none
FindBytes(bytes, sub) ==
    LET hits == {i \in 1..(Len(bytes) - Len(sub) + 1) :
                    SubSeq(bytes, i, i + Len(sub) - 1) = sub}
    IN IF hits = {} THEN 0 ELSE CHOOSE i \in hits : \A j \in hits : i <= j

\* Faulty variant of encode_header: the value is not terminated
encode_header_unterminated(key, value) == key \o <<NUL>> \o value

\* encode_header() local to _encode_request
encode_header(key, value) == key \o <<NUL>> \o value \o <<NUL>>

\* _ScgiTransportBase._encode_request for a transport whose _path is p
_encode_request(p, data) ==
    LET headers ==
            encode_header(<<"C", "O", "N", "T", "E", "N", "T", "_", "L", "E", "N", "G", "T", "H">>,
                          Chars(Len(data)))
            \o encode_header(<<"S", "C", "G", "I">>, <<"1">>)
            \o encode_header(<<"R", "E", "Q", "U", "E", "S", "T", "_", "M", "E", "T", "H", "O", "D">>,
                             <<"P", "O", "S", "T">>)
            \o encode_header(<<"R", "E", "Q", "U", "E", "S", "T", "_", "U", "R", "I">>, p)
    IN Chars(Len(headers)) \o <<":">> \o headers \o <<",">> \o data

\* No request() was made yet on the transport whose _path is p
ScgiTransport(p) ==
    [pc |-> "idle", path |-> p, data |-> <<>>, written |-> <<>>,
     headers |-> <<>>, delimited |-> FALSE, payload |-> <<>>, stream |-> <<>>,
     headers_done |-> FALSE, combined_headers |-> <<>>, chunk |-> <<>>,
     yielded |-> <<>>, log |-> <<>>, exc |-> NoExc]

\* No transport was constructed yet
NoTransport == [ScgiTransport(<<>>) EXCEPT !.pc = "absent"]

\* State after construction of adapter a: no status, lock, client, proxy,
\* header, event handler or callback attribute exists
Constructed(a) ==
    /\ adapter = a
    /\ proxy_url = PyNone
    /\ xmlrpc = PyNone
    /\ http_headers = {}
    /\ posted = [t \in Tasks |-> <<>>]
    /\ event_handlers = [e \in Events |-> [key |-> FALSE, handlers |-> <<>>]]
    /\ scgi = NoTransport
    /\ protocol = [e \in Events |-> <<>>]
    /\ status = "disconnected"
    /\ lockOwner = 0
    /\ waiters = <<>>
    /\ http_client = 0
    /\ invalidated = FALSE
    /\ clients = <<>>
    /\ closed = {}
    /\ endpoint = 0
    /\ timeout = default_timeout
    /\ op = [t \in Tasks |-> None]
    /\ fn = [t \in Tasks |-> None]
    /\ step = [t \in Tasks |-> None]
    /\ pc = [t \in Tasks |-> "idle"]
    /\ exc = [t \in Tasks |-> NoExc]
    /\ client = [t \in Tasks |-> 0]
    /\ args = [t \in Tasks |-> None]
    /\ result = [t \in Tasks |-> NoExc]
    /\ rec = [t \in Tasks |-> <<>>]
    /\ observed = <<>>
    /\ awaited = [t \in Tasks |-> <<0, None>>]
    /\ stale = {}
    /\ staleReturned = FALSE
    /\ mustReconnect = [t \in Tasks |-> FALSE]
    /\ dirty = FALSE
    /\ opsIssued = 0
    /\ mutations = 0

InitCommon == \E a \in Adapters : Constructed(a)

\* The adapter as its user sets it up: constructed, then on_connecting,
\* on_connected and on_disconnected each called once
Init ==
    /\ InitCommon
    /\ URLInit(default_url(adapter))
    /\ registered = CallbackNames
    /\ recording = FALSE

\* The adapter of test_connect in tests/base_test.py: callbacks registered and a
\* recorder attached to the callbacks, _connect and _disconnect
InitRecorded ==
    /\ InitCommon
    /\ URLInit(default_url(adapter))
    /\ registered = CallbackNames
    /\ recording = TRUE

\* The adapter right after construction: no _on_<name> attribute exists
InitBare ==
    /\ InitCommon
    /\ URLInit(default_url(adapter))
    /\ registered = {}
    /\ recording = FALSE

(***************************************************************************)
(* Synchronous code, as functions from state to state                      *)
(***************************************************************************)

\* The operators below build {F(m) : m \in {state}}, the set of the one value
\* F has for the state given, and take its element: this way the state given
\* is evaluated once, however often F uses it.

\* What the recorder of tests/base_test.py is attached to
Recorded == {"callback", "_connect", "_disconnect"}

Emit(state, t, ev) ==
    CHOOSE next \in {(
        [m EXCEPT !.rec[t] = Append(@, ev),
                  !.observed = IF m.recording /\ ev[1] \in Recorded THEN Append(@, ev) ELSE @]
        ) : m \in {state}} : TRUE

\* The operation of task t ends: it returns (res = Ok) or raises res
Finish(m, t, res) ==
    [m EXCEPT !.pc[t] = "done", !.fn[t] = None, !.step[t] = None,
              !.exc[t] = NoExc, !.client[t] = 0, !.result[t] = res,
              !.rec[t] = Append(@, IF res = Ok THEN <<"return">>
                                               ELSE <<"raise", res[1], res[2]>>)]

\* Faulty variant: the assignment to self._status is left out
SetStatusSkipped(m, t, s) == Emit(m, t, <<"status", s>>)

\* self._status = ...
SetStatus(m, t, s) == Emit([m EXCEPT !.status = s], t, <<"status", s>>)

\* RPCBase._call_connection_callback: getattr(self, f'_on_{name}') has no default
CallbackRaises(m, name) == name \notin m.registered

CallConnectionCallback(m, t, name) ==
    IF name \in m.registered THEN Emit(m, t, <<"callback", name, m.status>>) ELSE m

\* raise _errors.TimeoutError(f'Timeout after {self.timeout} seconds')
TimeoutError(m) == <<"TimeoutError", m.timeout>>

\* The event of an adapter method ending with exception e; for an expired
\* deadline it keeps the timeout the deadline was set from
Raised(m, name, e) == <<name, e[1], IF e = AsyncioTimeout THEN m.timeout ELSE e[2]>>

\* What the caller gets for exception e of the wrapped adapter method
Surface(m, e) == IF e = AsyncioTimeout THEN TimeoutError(m) ELSE e

\* Faulty variant: the lock block is left without Lock.release()
ReleaseForgotten(m) == m

\* `async with self._connection_lock` is left: Lock.release()
Release(m) == [m EXCEPT !.lockOwner = 0]

\* _utils.create_http_client(auth=(url.username, url.password), proxy_url=...)
CreateHttpClient(m) ==
    [m EXCEPT !.clients = Append(@, m.endpoint), !.http_client = Len(m.clients) + 1]

\* RPCBase._get_http_client from `if not hasattr(self, '_http_client')` on, then
\* _send_post_request up to the suspension in
\* client.post(..., headers=self._http_headers, ...)
PostRequest(state, t) ==
    CHOOSE next \in {(
        LET m1 == IF m.http_client = 0 THEN CreateHttpClient(m) ELSE m
        IN [m1 EXCEPT !.client[t] = m1.http_client,
                      !.pc[t] = "request",
                      !.posted[t] = Append(@, m.http_headers),
                      !.staleReturned = @ \/ m1.http_client \in m1.stale]
        ) : m \in {state}} : TRUE

\* RPCBase._close_http_client up to the suspension in aclose()
CloseHttpClientBegin(state, t, at) ==
    CHOOSE next \in {(
        [m EXCEPT !.client[t] = m.http_client, !.closed = @ \cup {m.http_client}, !.pc[t] = at]
        ) : m \in {state}} : TRUE

\* RPCBase._send_post_request: _get_http_client, then post
SendPostRequest(state, t) ==
    CHOOSE next \in {(
        IF m.invalidated
        THEN LET m1 == [m EXCEPT !.invalidated = FALSE]
             IN IF m1.http_client # 0
                THEN CloseHttpClientBegin(m1, t, "close_wait")
                ELSE PostRequest(m1, t)
        ELSE PostRequest(m, t)
        ) : m \in {state}} : TRUE

\* RPCBase.call from `async with async_timeout.timeout(...)` on: _call starts
CallBody(state, t) ==
    CHOOSE next \in {(
        SendPostRequest(
            Emit([m EXCEPT !.fn[t] = "call", !.step[t] = "_call"], t, <<"_call", m.args[t]>>), t)
        ) : m \in {state}} : TRUE

\* Faulty variant: call() goes on to _call however connect() ended
ConnectExitIgnored(m, t, res) ==
    LET m1 == Emit(m, t, IF res = Ok THEN <<"connect returned">>
                                    ELSE <<"connect raised", res[1], res[2]>>)
    IN IF m.op[t] = "call" THEN CallBody(m1, t) ELSE Finish(m1, t, res)

\* connect() is left with res; inside call() a normal return goes on to _call
ConnectExit(state, t, res) ==
    CHOOSE next \in {(
        LET m1 == Emit(m, t, IF res = Ok THEN <<"connect returned">>
                                        ELSE <<"connect raised", res[1], res[2]>>)
        IN IF m.op[t] = "call" /\ res = Ok THEN CallBody(m1, t) ELSE Finish(m1, t, res)
        ) : m \in {state}} : TRUE

\* disconnect() is left with res; inside __aexit__ a normal return goes on to
\* `await self._close_http_client()`
DisconnectExit(state, t, res) ==
    CHOOSE next \in {(
        IF m.op[t] = "aexit"
        THEN LET m1 == Emit(m, t, IF res = Ok THEN <<"disconnect returned">>
                                             ELSE <<"disconnect raised", res[1], res[2]>>)
             IN IF res = Ok /\ m1.http_client # 0
                THEN CloseHttpClientBegin([m1 EXCEPT !.fn[t] = "aexit", !.exc[t] = Ok], t, "teardown")
                ELSE Finish(m1, t, res)
        ELSE Finish(m, t, res)
        ) : m \in {state}} : TRUE

\* Faulty variant: disconnect() ends without _close_http_client
DisconnectFinallyNoTeardown(m, t, pending) == DisconnectExit(m, t, pending)

\* The outer `finally` of disconnect(): _close_http_client, the lock being free
DisconnectFinally(state, t, pending) ==
    CHOOSE next \in {(
        IF m.http_client # 0
        THEN CloseHttpClientBegin([m EXCEPT !.exc[t] = pending, !.step[t] = None], t, "teardown")
        ELSE DisconnectExit(m, t, pending)
        ) : m \in {state}} : TRUE

\* Faulty variant: disconnect() fires the callback but leaves the status as it is
DisconnectDoneLeavesStatus(m, t, out) ==
    IF m.fn[t] = "connect"
    THEN IF out = Ok
         THEN LET m1 == SetStatus(m, t, "disconnected")
                  m2 == CallConnectionCallback(m1, t, "disconnected")
              IN ConnectExit(Release(m2), t, Surface(m2, m.exc[t]))
         ELSE ConnectExit(Release(m), t, out)
    ELSE LET raised == IF out = Ok THEN Ok ELSE Surface(m, out)
             m2 == CallConnectionCallback(m, t, "disconnected")
         IN DisconnectFinally(Release(m2), t, raised)

\* Faulty variant: disconnect() closes the client with the lock still held
DisconnectDoneKeepsLock(m, t, out) ==
    IF m.fn[t] = "connect"
    THEN IF out = Ok
         THEN LET m1 == SetStatus(m, t, "disconnected")
                  m2 == CallConnectionCallback(m1, t, "disconnected")
              IN ConnectExit(Release(m2), t, Surface(m2, m.exc[t]))
         ELSE ConnectExit(Release(m), t, out)
    ELSE LET raised == IF out = Ok THEN Ok ELSE Surface(m, out)
             m1 == SetStatus(m, t, "disconnected")
             m2 == CallConnectionCallback(m1, t, "disconnected")
         IN DisconnectFinally(m2, t, raised)

\* Faulty variant: the failure path of connect() runs the callback before it sets the status
DisconnectDoneCallbackFirst(m, t, out) ==
    IF m.fn[t] = "connect"
    THEN IF out = Ok
         THEN IF CallbackRaises(m, "disconnected")
              THEN ConnectExit(Release(m), t, AttributeError("_on_disconnected"))
              ELSE LET m1 == CallConnectionCallback(m, t, "disconnected")
                       m2 == SetStatus(m1, t, "disconnected")
                   IN ConnectExit(Release(m2), t, Surface(m2, m.exc[t]))
         ELSE ConnectExit(Release(m), t, out)
    ELSE LET raised == IF out = Ok THEN Ok ELSE Surface(m, out)
             m1 == SetStatus(m, t, "disconnected")
             pending == IF CallbackRaises(m1, "disconnected")
                        THEN AttributeError("_on_disconnected") ELSE raised
             m2 == CallConnectionCallback(m1, t, "disconnected")
         IN DisconnectFinally(Release(m2), t, pending)

\* The adapter's _disconnect is over with `out` (Ok or what it raised)
DisconnectDone(state, t, out) ==
    CHOOSE next \in {(
        IF m.fn[t] = "connect"
        THEN \* `except Exception as e` of connect(), after `await self._disconnect()`
             IF out = Ok
             THEN LET m1 == SetStatus(m, t, "disconnected")
                  IN IF CallbackRaises(m1, "disconnected")
                     THEN ConnectExit(Release(m1), t, AttributeError("_on_disconnected"))
                     ELSE LET m2 == CallConnectionCallback(m1, t, "disconnected")
                          IN ConnectExit(Release(m2), t, Surface(m2, m.exc[t]))
             ELSE ConnectExit(Release(m), t, out)
        ELSE \* disconnect(): `except asyncio.TimeoutError` and the inner `finally`
             LET raised == IF out = Ok THEN Ok ELSE Surface(m, out)
                 m1 == SetStatus(m, t, "disconnected")
                 pending == IF CallbackRaises(m1, "disconnected")
                            THEN AttributeError("_on_disconnected") ELSE raised
                 m2 == CallConnectionCallback(m1, t, "disconnected")
             IN DisconnectFinally(Release(m2), t, pending)
        ) : m \in {state}} : TRUE

\* The adapter's _disconnect starts.  TransmissionRPC._disconnect only clears
\* self._http_headers; QbittorrentRPC._disconnect posts the logout request
StartDisconnectStep(state, t) ==
    CHOOSE next \in {(
        LET m1 == Emit([m EXCEPT !.step[t] = "_disconnect", !.client[t] = 0], t, <<"_disconnect">>)
        IN IF m.adapter = "transmission"
           THEN DisconnectDone(Emit([m1 EXCEPT !.http_headers = {}],
                                    t, <<"_disconnect returned">>), t, Ok)
           ELSE SendPostRequest(m1, t)
        ) : m \in {state}} : TRUE

\* Faulty variant: a failed _connect is passed on without _disconnect
ConnectDoneNoCleanup(m, t, out) ==
    IF out = Ok
    THEN LET m1 == SetStatus(Emit(m, t, <<"_connect returned">>), t, "connected")
         IN ConnectExit(Release(CallConnectionCallback(m1, t, "connected")), t, Ok)
    ELSE LET m1 == SetStatus(Emit(m, t, Raised(m, "_connect raised", out)), t, "disconnected")
         IN ConnectExit(Release(CallConnectionCallback(m1, t, "disconnected")), t, Surface(m1, out))

\* The adapter's _connect is over with `out`
ConnectDone(state, t, out) ==
    CHOOSE next \in {(
        LET m0 == [m EXCEPT !.awaited = [u \in Tasks |->
                       IF m.awaited[u] = <<t, "pending">>
                       THEN <<t, IF out = Ok THEN "ok" ELSE "failed">> ELSE m.awaited[u]]]
        IN IF out = Ok
           THEN LET m1 == SetStatus(Emit(m0, t, <<"_connect returned">>), t, "connected")
                IN IF CallbackRaises(m1, "connected")
                   THEN ConnectExit(Release(m1), t, AttributeError("_on_connected"))
                   ELSE ConnectExit(Release(CallConnectionCallback(m1, t, "connected")), t, Ok)
           ELSE StartDisconnectStep(
                    Emit([m0 EXCEPT !.exc[t] = out], t, Raised(m, "_connect raised", out)), t)
        ) : m \in {state}} : TRUE

\* Faulty variant: a failed _call marks the connection as lost
CallDoneDropsConnection(m, t, out) ==
    IF out = Ok
    THEN Finish(Emit(m, t, <<"_call returned">>), t, Ok)
    ELSE Finish(SetStatus(Emit(m, t, Raised(m, "_call raised", out)), t, "disconnected"),
                t, Surface(m, out))

\* The adapter's _call is over with `out`
CallDone(m, t, out) ==
    Finish(Emit(m, t, IF out = Ok THEN <<"_call returned">>
                                  ELSE Raised(m, "_call raised", out)), t, Surface(m, out))

\* The adapter method task t is in ends with `out`
AdapterDone(state, t, out) ==
    CHOOSE next \in {(
        LET m1 == [m EXCEPT !.client[t] = 0]
        IN CASE m.step[t] = "_connect" -> ConnectDone(m1, t, out)
             [] m.step[t] = "_disconnect" ->
                    DisconnectDone(Emit(m1, t, IF out = Ok THEN <<"_disconnect returned">>
                                               ELSE Raised(m, "_disconnect raised", out)), t, out)
             [] m.step[t] = "_call" -> CallDone(m1, t, out)
        ) : m \in {state}} : TRUE

\* TransmissionRPC._csrf_header
CsrfHeader == "X-Transmission-Session-Id"

\* The values of that header a daemon answers with
SessionIds == {"d34db33f", "0ddba11"}

\* response.status_code: 200, _csrf_error_code, _auth_error_code, another one
StatusCodes == {"200", "409", "401", "500"}

\* d[name] = value of a dict kept as a set of <<name, value>>
SetItem(d, name, value) == {kv \in d : kv[1] # name} \cup {<<name, value>>}

\* TransmissionRPC._connect after a response with _csrf_error_code: the
\* header is stored and _request('session-stats') awaited again
TransmissionRetry(state, t, sid) ==
    CHOOSE next \in {(
        SendPostRequest([m EXCEPT !.http_headers = SetItem(@, CsrfHeader, sid)], t)
        ) : m \in {state}} : TRUE

\* TransmissionRPC._connect and _call from the response of _request on.  The
\* first response of _connect is looked at; the response of the second
\* _request (there is one only after a 409) is returned as it is.  _call
\* raises RPCError unless the body is JSON with the result success.
TransmissionResponse(state, t, code, sid) ==
    CHOOSE next \in {(
        LET m1 == Emit(m, t, IF code = "409" THEN <<"response", code, sid>>
                                             ELSE <<"response", code>>)
        IN IF m.step[t] = "_connect"
           THEN IF Len(m.posted[t]) > 1 THEN AdapterDone(m1, t, Ok)
                ELSE CASE code = "409" -> TransmissionRetry(m1, t, sid)
                       [] code = "401" ->
                              AdapterDone(m1, t, <<"AuthenticationError", "Authentication failed">>)
                       [] code = "200" -> AdapterDone(m1, t, Ok)
                       [] OTHER -> AdapterDone(m1, t, <<"RPCError", "Failed to connect">>)
           ELSE IF code = "200" THEN AdapterDone(m1, t, Ok)
                ELSE AdapterDone(m1, t, <<"RPCError", "Unexpected response">>)
        ) : m \in {state}} : TRUE

\* Faulty variant: connect() does not look at the status
ConnectBodyAlways(m, t) ==
    LET m0 == Emit(m, t, <<"acquired", m.status>>)
        m1 == SetStatus(m0, t, "connecting")
        m2 == CallConnectionCallback(m1, t, "connecting")
    IN SendPostRequest(Emit([m2 EXCEPT !.step[t] = "_connect"], t, <<"_connect">>), t)

\* connect() with the lock held
ConnectBody(state, t) ==
    CHOOSE next \in {(
        LET m0 == Emit(m, t, <<"acquired", m.status>>)
        IN IF m.status = "connected"
           THEN ConnectExit(Release(m0), t, Ok)
           ELSE LET m1 == SetStatus(m0, t, "connecting")
                IN IF CallbackRaises(m1, "connecting")
                   THEN ConnectExit(Release(m1), t, AttributeError("_on_connecting"))
                   ELSE LET m2 == CallConnectionCallback(m1, t, "connecting")
                            m3 == [m2 EXCEPT !.step[t] = "_connect", !.dirty = FALSE,
                                             !.mustReconnect = [u \in Tasks |-> FALSE]]
                        IN SendPostRequest(
                               Emit(Emit(m3, t, <<"endpoint", Decimal(m.endpoint)>>), t, <<"_connect">>), t)
        ) : m \in {state}} : TRUE

\* Faulty variant: disconnect() does not look at the status
DisconnectBodyAlways(m, t) == StartDisconnectStep(Emit(m, t, <<"acquired", m.status>>), t)

\* disconnect() with the lock held
DisconnectBody(state, t) ==
    CHOOSE next \in {(
        LET m0 == Emit(m, t, <<"acquired", m.status>>)
        IN IF m.status # "disconnected"
           THEN StartDisconnectStep(m0, t)
           ELSE DisconnectFinally(Release(m0), t, Ok)
        ) : m \in {state}} : TRUE

Locked(state, t) ==
    CHOOSE next \in {(
        IF m.fn[t] = "connect" THEN ConnectBody(m, t) ELSE DisconnectBody(m, t)
        ) : m \in {state}} : TRUE

\* Faulty variant: the lock is taken without looking at its state
AcquireUnguarded(m, t) == Locked([m EXCEPT !.lockOwner = t], t)

\* asyncio.Lock.acquire(): at once when free and nobody waits, else queue up
Acquire(state, t) ==
    CHOOSE next \in {(
        IF m.lockOwner = 0 /\ m.waiters = <<>>
        THEN Locked([m EXCEPT !.lockOwner = t], t)
        ELSE [m EXCEPT !.waiters = Append(@, t), !.pc[t] = "lock_wait"]
        ) : m \in {state}} : TRUE

\* RPCBase._invalidate_http_client
InvalidateHttpClient(m) ==
    [m EXCEPT !.invalidated = IF m.http_client # 0 THEN TRUE ELSE @,
              !.status = "disconnected"]

(***************************************************************************)
(* Actions: one per public operation and per resumption of a suspended     *)
(* task                                                                    *)
(***************************************************************************)

\* Task t is free to call a public method: it never did, or its last call is over
Free(t) == pc[t] \in {"idle", "done"}

Begin(m, t, name) ==
    [m EXCEPT !.op[t] = name, !.rec[t] = <<<<name, m.status>>>>, !.opsIssued = @ + 1,
              !.pc[t] = "running", !.args[t] = None, !.result[t] = NoExc,
              !.awaited[t] = <<0, None>>, !.mustReconnect[t] = FALSE,
              !.posted[t] = <<>>]

\* on_connecting / on_connected / on_disconnected
Register(name) ==
    /\ name \notin registered
    /\ Commit([M EXCEPT !.registered = @ \cup {name}])

\* A caller awaits rpc.connect()
StartConnect(t) ==
    /\ Free(t)
    /\ Commit(Acquire([Begin(M, t, "connect") EXCEPT !.fn[t] = "connect"], t))

\* A caller awaits rpc.disconnect()
StartDisconnect(t) ==
    /\ Free(t)
    /\ Commit(Acquire([Begin(M, t, "disconnect") EXCEPT !.fn[t] = "disconnect"], t))

\* A caller awaits rpc.call(a)
StartCall(t, a) ==
    /\ Free(t)
    /\ LET m0 == [Begin(M, t, "call") EXCEPT !.args[t] = a, !.mustReconnect[t] = dirty]
       IN IF status # "connected"
          THEN LET inflight == lockOwner # 0 /\ status = "connecting"
                               /\ step[lockOwner] = "_connect"
                   m1 == [m0 EXCEPT !.fn[t] = "connect",
                                    !.awaited[t] = IF inflight THEN <<lockOwner, "pending">> ELSE @]
               IN Commit(Acquire(Emit(m1, t, <<"connect()">>), t))
          ELSE Commit(CallBody(m0, t))

\* Faulty variant: the first waiter goes on although the lock is still held
LockGrantedEarly(t) ==
    /\ pc[t] = "lock_wait"
    /\ waiters # <<>>
    /\ Head(waiters) = t
    /\ Commit(Locked([M EXCEPT !.lockOwner = t, !.waiters = Tail(@), !.pc[t] = "running"], t))

\* Lock.release() woke the first waiter: it owns the lock and goes on
LockGranted(t) ==
    /\ pc[t] = "lock_wait"
    /\ lockOwner = 0
    /\ waiters # <<>>
    /\ Head(waiters) = t
    /\ Commit(Locked([M EXCEPT !.lockOwner = t, !.waiters = Tail(@), !.pc[t] = "running"], t))

\* aclose() inside _get_http_client is over: delattr(self, '_http_client'), create
\* the new client, post
CloseResumed(t) ==
    /\ pc[t] = "close_wait"
    /\ IF http_client = 0
       THEN Commit(AdapterDone(M, t, AttributeError("_http_client")))
       ELSE Commit(PostRequest([M EXCEPT !.http_client = 0], t))

\* client.post(...) is answered and the adapter method returns
RequestReturns(t) ==
    /\ pc[t] = "request"
    /\ Commit(AdapterDone(M, t, Ok))

\* client.post(...) fails (ConnectionError), or _connect/_call reject the response
\* (RPCError); QbittorrentRPC._disconnect does not look at the response
RequestRaises(t, e) ==
    /\ pc[t] = "request"
    /\ step[t] = "_disconnect" => e[1] = "ConnectionError"
    /\ Commit(AdapterDone(M, t, e))

\* client.post(...) of the Transmission adapter is answered with status
\* `code` (and, with 409, the session id sid)
RequestAnswered(t, code, sid) ==
    /\ pc[t] = "request"
    /\ adapter = "transmission"
    /\ step[t] \in {"_connect", "_call"}
    /\ Commit(TransmissionResponse(M, t, code, sid))

\* The await task t is suspended in is inside an
\* `async with async_timeout.timeout(self.timeout)` block.  The _disconnect
\* that connect() awaits in its except branch is outside the one of connect().
UnderDeadline(t) == ~(fn[t] = "connect" /\ step[t] = "_disconnect")

\* The deadline of async_timeout.timeout(self.timeout) expires while the adapter
\* method is suspended
DeadlineExpires(t) ==
    /\ pc[t] \in {"close_wait", "request"}
    /\ UnderDeadline(t)
    /\ Commit(AdapterDone(M, t, AsyncioTimeout))

\* aclose() of disconnect()'s final _close_http_client, or of the one in
\* __aexit__, is over: delattr
TeardownResumed(t) ==
    /\ pc[t] = "teardown"
    /\ LET res == IF http_client = 0 THEN AttributeError("_http_client") ELSE exc[t]
           m == [M EXCEPT !.http_client = 0]
       IN IF fn[t] = "aexit" THEN Commit(Finish(m, t, res)) ELSE Commit(DisconnectExit(m, t, res))

\* `async with rpc:` is entered: __aenter__ returns the adapter
StartAenter(t) ==
    /\ Free(t)
    /\ Commit([Finish(Begin(M, t, "aenter"), t, Ok) EXCEPT !.result[t] = <<"self", "">>])

\* `async with rpc:` is left, normally or by an exception of its body:
\* __aexit__ awaits disconnect()
StartAexit(t) ==
    /\ Free(t)
    /\ Commit(Acquire(Emit([Begin(M, t, "aexit") EXCEPT !.fn[t] = "disconnect"],
                           t, <<"disconnect()">>), t))

\* The url or the proxy_url is another one: on_change of the URL, which is
\* _invalidate_http_client, or the call of it that ends the url setter
UrlChanged(m) ==
    LET hit == m.status = "connected" /\ m.http_client # 0
    IN InvalidateHttpClient([m EXCEPT !.endpoint = @ + 1,
                                      !.stale = IF hit THEN @ \cup {m.http_client} ELSE @,
                                      !.dirty = @ \/ hit])

\* rpc.url = ..., rpc.url.<field> = ..., rpc.proxy_url = ..., rpc.proxy_url.<field> = ...
SetEndpoint ==
    /\ mutations < MaxMutations
    /\ Commit(UrlChanged([M EXCEPT !.mutations = @ + 1]))

\* rpc.timeout = v
SetTimeout(v) ==
    /\ mutations < MaxMutations
    /\ Commit(InvalidateHttpClient([M EXCEPT !.timeout = v, !.mutations = @ + 1]))

\* Values assigned to rpc.timeout: those of test_timeout (1, 2.5, 0, None,
\* False, 'foo') and True, -1, 0.0, '', '5', [], [x], 10**308, 10**400
TimeoutInputs ==
    {PyInt(1, 0), PyFloat(25, 0 - 1), PyInt(0, 0), PyNone, PyBool(FALSE),
     PyStr(<<"f", "o", "o">>), PyBool(TRUE), PyInt(0 - 1, 0), PyFloat(0, 0), PyStr(<<>>),
     PyStr(<<"5">>), PyList(0), PyList(1), PyInt(1, 308), PyInt(1, 400)}

\* The timeout setter: `float(timeout) if timeout else self.default_timeout`,
\* TypeError and ValueError become the package's ValueError, and after the
\* assignment _invalidate_http_client()
TimeoutSetter(m, t, v) ==
    LET f == IF Truthy(v) THEN float(v) ELSE PyNone
        new == IF Truthy(v) THEN repr(f) ELSE default_timeout
    IN IF f.type \in {"TypeError", "ValueError"}
       THEN Finish(m, t, <<"ValueError", "Invalid timeout">>)
       ELSE IF f.type = "OverflowError"
       THEN Finish(m, t, <<"OverflowError", "int too large to convert to float">>)
       ELSE Finish(InvalidateHttpClient(Emit([m EXCEPT !.timeout = new], t,
                                             <<"_invalidate_http_client">>)), t, Ok)

\* rpc.timeout = v, by task t
AssignTimeout(t, v) ==
    /\ Free(t)
    /\ Commit(TimeoutSetter(Emit(Begin([M EXCEPT !.mutations = @ + 1], t, "timeout="),
                                  t, <<"value", v>>), t, v))

\* Values assigned to rpc.url.port: those of test_URL_port (-1, 0, None,
\* False, '-1', 1, '1', 65535, '65535', 65536, '65536', 'foo') and True, '',
\* 80.9, 0.5, '080', ' 80 ', [x], 10**400, float('inf'), float('nan')
PortInputs ==
    {PyInt(0 - 1, 0), PyInt(0, 0), PyNone, PyBool(FALSE), PyStr(<<"-", "1">>),
     PyInt(1, 0), PyStr(<<"1">>), PyInt(65535, 0), PyStr(<<"6", "5", "5", "3", "5">>),
     PyInt(65536, 0), PyStr(<<"6", "5", "5", "3", "6">>), PyStr(<<"f", "o", "o">>),
     PyBool(TRUE), PyStr(<<>>), PyFloat(809, 0 - 1), PyFloat(5, 0 - 1),
     PyStr(<<"0", "8", "0">>), PyStr(<<" ", "8", "0", " ">>), PyList(1),
     PyInt(1, 400), PyInf, PyNan}

\* Faulty variant: the callback is called whether or not _on_change is set
OnChangeAlways(m, t) == UrlChanged(Emit(m, t, <<"on_change">>))

\* The end of every setter of rpc.url: `if self._on_change: self._on_change()`
OnChange(state, t) ==
    CHOOSE next \in {(
        IF m.on_change = None THEN m ELSE UrlChanged(Emit(m, t, <<"on_change">>))
        ) : m \in {state}} : TRUE

\* Faulty variant: the scheme setter without the branch for 'file'
SetSchemeOnly(m, t, v) == OnChange([m EXCEPT !.scheme = SchemeSetter(v)], t)

\* Faulty variant: the scheme setter drops host, port, username and password
\* whatever the scheme is
SetSchemeResets(m, t, v) ==
    OnChange([m EXCEPT !.scheme = SchemeSetter(v), !.host = PyNone, !.port = PyNone,
                       !.username = PyNone, !.password = PyNone], t)

\* self.scheme = v: 'file' drops host, port, username and password
SetScheme(state, t, v) ==
    CHOOSE next \in {(
        LET s == SchemeSetter(v)
        IN OnChange([m EXCEPT !.scheme = s,
                              !.host = IF s = File THEN PyNone ELSE @,
                              !.port = IF s = File THEN PyNone ELSE @,
                              !.username = IF s = File THEN PyNone ELSE @,
                              !.password = IF s = File THEN PyNone ELSE @], t)
        ) : m \in {state}} : TRUE

\* self.host = v
SetHost(state, t, v) ==
    CHOOSE next \in {( OnChange([m EXCEPT !.host = HostSetter(m.scheme, v)], t)
        ) : m \in {state}} : TRUE

\* self.path = v
SetPath(state, t, v) ==
    CHOOSE next \in {( OnChange([m EXCEPT !.path = PathSetter(v)], t)
        ) : m \in {state}} : TRUE

\* self.username = v
SetUsername(state, t, v) ==
    CHOOSE next \in {( OnChange([m EXCEPT !.username = HostSetter(m.scheme, v)], t)
        ) : m \in {state}} : TRUE

\* self.password = v
SetPassword(state, t, v) ==
    CHOOSE next \in {( OnChange([m EXCEPT !.password = HostSetter(m.scheme, v)], t)
        ) : m \in {state}} : TRUE

\* URL.__init__(url, on_change=self._invalidate_http_client) in task t, for a
\* url the parsing accepts: a new object, the six assignments while
\* _on_change is None, then _on_change is set.  fails tells whether the
\* assignment of the port raises.
URLConstruct(state, t, parsed) ==
    CHOOSE next \in {(
        LET fresh == [m EXCEPT !.on_change = None, !.host = PyNone, !.port = PyNone,
                               !.path = PyNone, !.username = PyNone, !.password = PyNone]
            named == SetHost(SetScheme(fresh, t, parsed.scheme), t, parsed.hostname)
            set == PortSetter(named.scheme, named.port, parsed.port)
            ported == OnChange([named EXCEPT !.port = set.port], t)
            done == SetPassword(SetUsername(SetPath(ported, t, parsed.path),
                                            t, parsed.username), t, parsed.password)
        IN [fails |-> set.exc # NoExc, exc |-> set.exc,
            m |-> [done EXCEPT !.on_change = InvalidateCallback]]
        ) : m \in {state}} : TRUE

\* rpc.url = u, by task t: self._url is a new URL of u, or of default_url if
\* u is empty, then _invalidate_http_client(); a url the constructor refuses
\* leaves self._url as it is
AssignUrl(t, u) ==
    /\ Free(t)
    /\ \E m0 \in {Emit(Begin([M EXCEPT !.mutations = @ + 1], t, "url="),
                         t, <<"value", PyStr(u)>>)},
          parsed \in {parse(IF u # <<>> THEN u ELSE default_url(adapter),
                            <<"h", "t", "t", "p">>)} :
          IF parsed.exc # NoExc THEN Commit(Finish(m0, t, parsed.exc))
          ELSE \E new \in {URLConstruct(m0, t, parsed)} :
                  IF new.fails THEN Commit(Finish(m0, t, new.exc))
                  ELSE Commit(Finish(UrlChanged(Emit(new.m, t, <<"_invalidate_http_client">>)),
                                     t, Ok))

\* rpc.url.port = v, by task t: the setter, then self._on_change()
AssignPort(t, v) ==
    /\ Free(t)
    /\ LET m0 == Emit(Begin([M EXCEPT !.mutations = @ + 1], t, "port="), t, <<"value", v>>)
           set == PortSetter(scheme, port, v)
       IN IF set.exc # NoExc
          THEN Commit(Finish(m0, t, set.exc))
          ELSE Commit(Finish(OnChange([m0 EXCEPT !.port = set.port], t), t, Ok))

\* rpc.url.scheme = v, by task t
AssignScheme(t, v) ==
    /\ Free(t)
    /\ LET m0 == Emit(Begin([M EXCEPT !.mutations = @ + 1], t, "scheme="), t, <<"value", v>>)
       IN Commit(Finish(SetScheme(m0, t, v), t, Ok))

\* rpc.url.host = v, by task t
AssignHost(t, v) ==
    /\ Free(t)
    /\ LET m0 == Emit(Begin([M EXCEPT !.mutations = @ + 1], t, "host="), t, <<"value", v>>)
       IN Commit(Finish(SetHost(m0, t, v), t, Ok))

\* rpc.url.path = v, by task t
AssignPath(t, v) ==
    /\ Free(t)
    /\ LET m0 == Emit(Begin([M EXCEPT !.mutations = @ + 1], t, "path="), t, <<"value", v>>)
       IN Commit(Finish(SetPath(m0, t, v), t, Ok))

\* rpc.url.username = v, by task t
AssignUsername(t, v) ==
    /\ Free(t)
    /\ LET m0 == Emit(Begin([M EXCEPT !.mutations = @ + 1], t, "username="), t, <<"value", v>>)
       IN Commit(Finish(SetUsername(m0, t, v), t, Ok))

\* rpc.url.password = v, by task t
AssignPassword(t, v) ==
    /\ Free(t)
    /\ LET m0 == Emit(Begin([M EXCEPT !.mutations = @ + 1], t, "password="), t, <<"value", v>>)
       IN Commit(Finish(SetPassword(m0, t, v), t, Ok))

(***************************************************************************)
(* The rTorrent adapter: _rtorrent.py                                      *)
(***************************************************************************)

Http == PyStr(<<"h", "t", "t", "p">>)
Https == PyStr(<<"h", "t", "t", "p", "s">>)
Scgi == PyStr(<<"s", "c", "g", "i">>)
RPC2 == PyStr(<<"/", "R", "P", "C", "2">>)

\* How the request of a transport ends: answered, connection refused, HTTP
\* status 401, another HTTP status that is not 200, an XML-RPC fault
Net == {"ok", "refused", "401", "500", "fault"}

\* rpc.proxy_url = p, by task t: None for an empty p, else a new URL of p;
\* then _invalidate_http_client().  A p the constructor refuses leaves
\* self._proxy_url as it is.
AssignProxyUrl(t, p) ==
    /\ Free(t)
    /\ \E m0 \in {Emit(Begin([M EXCEPT !.mutations = @ + 1], t, "proxy_url="),
                         t, <<"value", PyStr(p)>>)},
          new \in {IF p = <<>> THEN PyNone ELSE URLNew(p)} :
          IF new # PyNone /\ new.exc # NoExc THEN Commit(Finish(m0, t, new.exc))
          ELSE Commit(Finish(UrlChanged(Emit([m0 EXCEPT !.proxy_url = new],
                                             t, <<"_invalidate_http_client">>)), t, Ok))

\* _ScgiSocketTransport(url=url): it is not given the proxy_url
ScgiSocketTransport(m) ==
    [exc |-> NoExc,
     m |-> [m EXCEPT !.xmlrpc = [transport |-> "_ScgiSocketTransport",
                                 proxy_url |-> PyNone]]]

\* _AsyncServerProxy(url=self.url, proxy_url=self.proxy_url) in task t: the
\* transport the scheme of the url selects, or what the constructors raise.
\* _HttpTransport assigns url.path when the url has none.
AsyncServerProxy(state, t) ==
    CHOOSE new \in {(
        IF m.scheme \in {Http, Https}
        THEN [exc |-> NoExc,
              m |-> [(IF Truthy(m.path) THEN m ELSE SetPath(m, t, RPC2))
                        EXCEPT !.xmlrpc = [transport |-> "_HttpTransport",
                                           proxy_url |-> m.proxy_url]]]
        ELSE IF m.scheme = Scgi
        THEN IF ~Truthy(m.port)
             THEN [exc |-> <<"ValueError", "No port specified">>, m |-> m]
             ELSE [exc |-> NoExc,
                   m |-> [m EXCEPT !.xmlrpc = [transport |-> "_ScgiHostTransport",
                                               proxy_url |-> m.proxy_url]]]
        ELSE IF m.scheme = File /\ Truthy(m.path)
        THEN ScgiSocketTransport(m)
        ELSE [exc |-> <<"ValueError", "Unsupported protocol">>, m |-> m]
        ) : m \in {state}} : TRUE

\* The outcomes a transport can have: only a response over HTTP has a status
Answers(transport) ==
    IF transport = "_HttpTransport" THEN Net ELSE Net \ {"401", "500"}

\* What RtorrentRPC._call makes of the outcome of self._xmlrpc.call(...)
CallOutcome(net) ==
    CASE net = "ok" -> Ok
      [] net = "refused" -> <<"ConnectionError", "Connection refused">>
      [] net = "401" -> <<"AuthenticationError", "Authentication failed">>
      [] net = "500" -> <<"RPCError", "Internal Server Error">>
      [] net = "fault" -> <<"RPCError", "Method not defined">>

\* self._transport.request(...) of the transport made by the last _connect:
\* _HttpTransport posts with its own http client (made with the proxy, if
\* any), _ScgiHostTransport opens a connection to host and port, through
\* proxy.connect() if it has a proxy, _ScgiSocketTransport opens the socket
\* at the path
TransportRequest(state, t, net) ==
    CHOOSE next \in {(
        LET x == m.xmlrpc
            proxied == x.proxy_url # PyNone
        IN CASE x.transport = "_HttpTransport" ->
                   Emit(m, t, <<"http_client.stream", IF proxied THEN "proxy" ELSE "direct">>)
             [] x.transport = "_ScgiHostTransport" ->
                   IF proxied
                   THEN LET m1 == Emit(m, t, <<"proxy.connect">>)
                        IN IF net = "refused" THEN m1
                           ELSE Emit(m1, t, <<"asyncio.open_connection", "proxy">>)
                   ELSE Emit(m, t, <<"asyncio.open_connection", "direct">>)
             [] x.transport = "_ScgiSocketTransport" ->
                   Emit(m, t, <<"asyncio.open_unix_connection", "direct">>)
        ) : m \in {state}} : TRUE

\* RtorrentRPC._call from self._xmlrpc.call(...) on
RtorrentCallBody(state, t, net) ==
    CHOOSE next \in {(
        IF m.xmlrpc = PyNone THEN Finish(m, t, AttributeError("_xmlrpc"))
        ELSE Finish(TransportRequest(m, t, net), t, CallOutcome(net))
        ) : m \in {state}} : TRUE

\* RtorrentRPC._disconnect: close and forget the proxy object, if there is one
RtorrentDisconnectBody(state, t) ==
    CHOOSE next \in {(
        IF m.xmlrpc = PyNone THEN m
        ELSE [Emit(m, t, <<"_xmlrpc.close">>) EXCEPT !.xmlrpc = PyNone]
        ) : m \in {state}} : TRUE

\* RtorrentRPC._connect, awaited by task t: _disconnect, a new
\* _AsyncServerProxy, then _call('system.pid')
RtorrentConnect(t, net) ==
    /\ Free(t)
    /\ \E new \in {AsyncServerProxy(RtorrentDisconnectBody(Begin(M, t, "_connect"), t), t)} :
          IF new.exc # NoExc THEN Commit(Finish(new.m, t, new.exc))
          ELSE /\ net \in Answers(new.m.xmlrpc.transport)
               /\ Commit(RtorrentCallBody(new.m, t, net))

\* RtorrentRPC._call, awaited by task t
RtorrentCall(t, net) ==
    /\ Free(t)
    /\ xmlrpc # PyNone => net \in Answers(xmlrpc.transport)
    /\ Commit(RtorrentCallBody(Emit(Begin(M, t, "_call"), t, <<"_call">>), t, net))

\* RtorrentRPC._disconnect, awaited by task t
RtorrentDisconnect(t) ==
    /\ Free(t)
    /\ Commit(Finish(RtorrentDisconnectBody(Begin(M, t, "_disconnect"), t), t, Ok))

(***************************************************************************)
(* Events: set_event_handler, unset_event_handler, _emit_event             *)
(***************************************************************************)

\* The callables given as handlers
Handlers == {"handler1", "handler2"}

\* A subclass of RPCBase that overrides _subscribe and _unsubscribe; those
\* of RPCBase raise NotImplementedError
EventsAdapter == "subclass"

NotImplementedError == <<"NotImplementedError", "Events are not supported">>

\* handler in list
In(h, list) == \E i \in DOMAIN list : list[i] = h

\* list.remove(h): the first occurrence is taken out
Remove(list, h) ==
    LET i == CHOOSE j \in DOMAIN list : list[j] = h /\ \A k \in 1..(j - 1) : list[k] # h
    IN SubSeq(list, 1, i - 1) \o SubSeq(list, i + 1, Len(list))

\* self._event_handlers[event] of the defaultdict: a missing key is made,
\* with an empty list
GetItem(m, e) == [m EXCEPT !.event_handlers[e].key = TRUE]

\* await self._subscribe(event) or self._unsubscribe(event), in task t: the
\* call is made, and ends the operation with NotImplementedError unless the
\* subclass has the method
Protocol(state, t, name, e) ==
    CHOOSE r \in {(
        [raises |-> m.adapter # EventsAdapter,
         m |-> IF m.adapter # EventsAdapter
               THEN Finish(Emit(m, t, <<name, e>>), t, NotImplementedError)
               ELSE Emit(m, t, <<name, e>>)]
        ) : m \in {state}} : TRUE

\* RPCBase.set_event_handler(event, handler), awaited by task t
SetEventHandler(t, e, h) ==
    /\ Free(t)
    /\ \E m0 \in {Emit(Begin(M, t, "set_event_handler"), t, <<"args", e, h>>)} :
       \E sub \in {IF m0.event_handlers[e].key
                   THEN [raises |-> FALSE, m |-> m0]
                   ELSE Protocol(m0, t, "_subscribe", e)} :
          IF sub.raises THEN Commit(sub.m)
          ELSE \E m1 \in {GetItem(sub.m, e)} :
                  IF In(h, m1.event_handlers[e].handlers)
                  THEN Commit(Finish(m1, t, Ok))
                  ELSE Commit(Finish([m1 EXCEPT !.event_handlers[e].handlers = Append(@, h)],
                                     t, Ok))

\* RPCBase.unset_event_handler(event, handler), awaited by task t
UnsetEventHandler(t, e, h) ==
    /\ Free(t)
    /\ \E m0 \in {GetItem(Emit(Begin(M, t, "unset_event_handler"), t, <<"args", e, h>>), e)} :
       \E m1 \in {IF In(h, m0.event_handlers[e].handlers)
                  THEN [m0 EXCEPT !.event_handlers[e].handlers = Remove(@, h)]
                  ELSE m0} :
          IF m1.event_handlers[e].handlers # <<>>
          THEN Commit(Finish(m1, t, Ok))
          ELSE \E unsub \in {Protocol([m1 EXCEPT !.event_handlers[e].key = FALSE],
                                      t, "_unsubscribe", e)} :
                  IF unsub.raises THEN Commit(unsub.m)
                  ELSE Commit(Finish(unsub.m, t, Ok))

\* The handlers of a list are called in turn
RECURSIVE CallHandlers(_, _, _)
CallHandlers(m, t, list) ==
    IF list = <<>> THEN m
    ELSE CallHandlers(Emit(m, t, <<"handler", Head(list)>>), t, Tail(list))

\* RPCBase._emit_event(event), awaited by task t (the subclass got an event)
EmitEvent(t, e) ==
    /\ Free(t)
    /\ \E m0 \in {GetItem(Emit(Begin(M, t, "_emit_event"), t, <<"args", e>>), e)} :
          Commit(Finish(CallHandlers(m0, t, m0.event_handlers[e].handlers), t, Ok))

\* The callers that mix operations issue MaxOps of them in all
Budget == opsIssued < MaxOps

WorkerConnect(t) == Budget /\ StartConnect(t)

WorkerDisconnect(t) == Budget /\ StartDisconnect(t)

WorkerCall(t, a) == Budget /\ StartCall(t, a)

Next ==
    \/ \E t \in Workers : WorkerConnect(t)
    \/ \E t \in Workers : WorkerDisconnect(t)
    \/ \E t \in Workers, a \in CallArgs : WorkerCall(t, a)
    \/ \E t \in Tasks : LockGranted(t)
    \/ \E t \in Tasks : CloseResumed(t)
    \/ \E t \in Tasks : RequestReturns(t)
    \/ \E t \in Tasks, e \in AdapterErrors : RequestRaises(t, e)
    \/ \E t \in Tasks : DeadlineExpires(t)
    \/ \E t \in Tasks : TeardownResumed(t)
    \/ SetEndpoint
    \/ \E v \in TimeoutValues : SetTimeout(v)

Spec == Init /\ [][Next]_vars

\* Scenario of test_connect: every caller awaits connect() once, nothing else
ConnectOnce(t) == pc[t] = "idle" /\ StartConnect(t)

NextConnect ==
    \/ \E t \in Tasks : ConnectOnce(t)
    \/ \E t \in Tasks : LockGranted(t)
    \/ \E t \in Tasks : RequestReturns(t)
    \/ \E t \in Tasks, e \in AdapterErrors : RequestRaises(t, e)
    \/ \E t \in Tasks : DeadlineExpires(t)

SpecConnect == InitRecorded /\ [][NextConnect]_vars

\* Scenario of test_disconnect: one caller connects, then callers await
\* disconnect() once each while status is not disconnected or another
\* disconnect() was issued; no connect() or call() is issued from then on
Disconnecting == \E t \in Tasks : op[t] = "disconnect"

SetupConnect == ~Disconnecting /\ pc[1] = "idle" /\ StartConnect(1)

DisconnectOnce(t) ==
    /\ op[t] # "disconnect"
    /\ status # "disconnected" \/ Disconnecting
    /\ StartDisconnect(t)

NextDisconnect ==
    \/ SetupConnect
    \/ \E t \in Tasks : DisconnectOnce(t)
    \/ \E t \in Tasks : LockGranted(t)
    \/ \E t \in Tasks : RequestReturns(t)
    \/ \E t \in Tasks, e \in AdapterErrors : RequestRaises(t, e)
    \/ \E t \in Tasks : DeadlineExpires(t)
    \/ \E t \in Tasks : TeardownResumed(t)

SpecDisconnect == Init /\ [][NextDisconnect]_vars

\* Scenario of test_context_manager_behaviour and test_api_as_context_manager:
\* one caller runs `async with rpc:` blocks one after the other, awaits
\* call() inside them and may assign the url inside or between them
InBlock == op[1] \in {"aenter", "call"}

ContextBudget == opsIssued < MaxContextOps

Enter == ~InBlock /\ ContextBudget /\ StartAenter(1)

CallInBlock(a) == InBlock /\ ContextBudget /\ StartCall(1, a)

Exit == InBlock /\ StartAexit(1)

NextContext ==
    \/ Enter
    \/ \E a \in CallArgs : CallInBlock(a)
    \/ Exit
    \/ CloseResumed(1)
    \/ RequestReturns(1)
    \/ \E e \in AdapterErrors : RequestRaises(1, e)
    \/ DeadlineExpires(1)
    \/ TeardownResumed(1)
    \/ SetEndpoint

SpecContext == Init /\ [][NextContext]_vars

\* Concurrent callers: every one of NumCallers callers awaits one of connect(),
\* disconnect(), call() once, at any moment.  The event loop runs a
\* woken lock waiter, and requests and aclose() come to an end (with an
\* answer, an error or the deadline).
Callers == 1..NumCallers

OnceConnect(t) == pc[t] = "idle" /\ StartConnect(t)

OnceDisconnect(t) == pc[t] = "idle" /\ StartDisconnect(t)

OnceCall(t, a) == pc[t] = "idle" /\ StartCall(t, a)

\* The adapter method task t is suspended in comes to an end
AdapterFinishes(t) ==
    \/ RequestReturns(t)
    \/ \E e \in AdapterErrors : RequestRaises(t, e)
    \/ DeadlineExpires(t)

NextOnce ==
    \/ \E t \in Callers : OnceConnect(t)
    \/ \E t \in Callers : OnceDisconnect(t)
    \/ \E t \in Callers, a \in CallArgs : OnceCall(t, a)
    \/ \E t \in Callers : LockGranted(t)
    \/ \E t \in Callers : CloseResumed(t)
    \/ \E t \in Callers : AdapterFinishes(t)
    \/ \E t \in Callers : TeardownResumed(t)
    \/ SetEndpoint

\* Caller t is resumed from the await it is suspended in; at most one of the
\* four is enabled at a time
Resumed(t) ==
    \/ LockGranted(t)
    \/ CloseResumed(t)
    \/ AdapterFinishes(t)
    \/ TeardownResumed(t)

Fairness == \A t \in Callers : WF_vars(Resumed(t))

SpecFair == Init /\ [][NextOnce]_vars /\ Fairness

\* Scenario of test_timeout, on an adapter in use: caller 1 awaits connect(),
\* disconnect() and call(), and caller 2 assigns rpc.timeout at any moment
TimeoutBudget == opsIssued < MaxTimeoutOps

TimeoutConnect == TimeoutBudget /\ StartConnect(1)

TimeoutDisconnect == TimeoutBudget /\ StartDisconnect(1)

TimeoutCall(a) == TimeoutBudget /\ StartCall(1, a)

TimeoutAssign(v) == TimeoutBudget /\ AssignTimeout(2, v)

NextTimeout ==
    \/ TimeoutConnect
    \/ TimeoutDisconnect
    \/ \E a \in CallArgs : TimeoutCall(a)
    \/ \E v \in TimeoutInputs : TimeoutAssign(v)
    \/ CloseResumed(1)
    \/ RequestReturns(1)
    \/ \E e \in AdapterErrors : RequestRaises(1, e)
    \/ DeadlineExpires(1)
    \/ TeardownResumed(1)

SpecTimeout == Init /\ [][NextTimeout]_vars

\* Scenario of test_URL_port: a URL made from 'this://a:b@localhost:555/some/path',
\* 'file:///some/path' or 'http://localhost', with on_change, and then
\* assignments to its port and its scheme, one after the other
Urls ==
    {<<"t", "h", "i", "s", ":", "/", "/", "a", ":", "b", "@", "l", "o", "c", "a", "l", "h",
       "o", "s", "t", ":", "5", "5", "5", "/", "s", "o", "m", "e", "/", "p", "a", "t", "h">>,
     <<"f", "i", "l", "e", ":", "/", "/", "/", "s", "o", "m", "e", "/", "p", "a", "t", "h">>,
     <<"h", "t", "t", "p", ":", "/", "/", "l", "o", "c", "a", "l", "h", "o", "s", "t">>}

Schemes ==
    {PyStr(<<"t", "h", "i", "s">>), PyStr(<<"f", "i", "l", "e">>), PyStr(<<"h", "t", "t", "p">>)}

InitPort ==
    /\ InitCommon
    /\ \E u \in Urls : URLInit(u)
    /\ registered = CallbackNames
    /\ recording = FALSE

PortBudget == opsIssued < MaxPortOps

PortAssign(v) == PortBudget /\ AssignPort(1, v)

SchemeAssign(s) == PortBudget /\ AssignScheme(1, s)

NextPort ==
    \/ \E v \in PortInputs : PortAssign(v)
    \/ \E s \in Schemes : SchemeAssign(s)

SpecPort == InitPort /\ [][NextPort]_vars

\* Scenario of test_URL_scheme, test_URL_host, test_URL_port, test_URL_path,
\* test_URL_username and test_URL_password: rpc.url is a URL made from a
\* string, then rpc.url or a field of it is assigned, one assignment after
\* the other
MaxUrlOps == 3

\* The strings a URL is made from: those of the tests, one without scheme,
\* with and without port, an upper case FILE, a path to normalize and two
\* that the constructor refuses
UrlStrings ==
    {<<"t", "h", "i", "s", ":", "/", "/", "a", ":", "b", "@", "l", "o", "c", "a", "l", "h",
       "o", "s", "t", ":", "5", "5", "5", "/", "s", "o", "m", "e", "/", "p", "a", "t",
       "h">>,
     <<"f", "i", "l", "e", ":", "/", "/", "/", "s", "o", "m", "e", "/", "p", "a", "t",
       "h">>,
     <<"l", "o", "c", "a", "l", "h", "o", "s", "t", ":", "1", "2", "3">>,
     <<"l", "o", "c", "a", "l", "h", "o", "s", "t">>,
     <<"F", "I", "L", "E", ":", "/", "/", "h", "o", "s", "t", ":", "8", "0", "/", "p">>,
     <<"f", "o", "o", ":", "@", "h", ".", "x", ":", "1", "/", "a", "/", ".", ".", "/",
       "b">>,
     <<"h", "t", "t", "p", ":", "/", "/", "l", "o", "c", "a", "l", "h", "o", "s", "t", ":",
       "a", "r", "f">>,
     <<"x", ":", "/", "/", "h", ":", "6", "5", "5", "3", "6">>}

\* The values assigned to the fields: falsy ones, a number, True and strings
UrlValues ==
    {PyNone, PyBool(FALSE), PyInt(0, 0), PyStr(<<>>), PyInt(123, 0), PyBool(TRUE),
     PyStr(<<"t", "h", "i", "s">>), PyStr(<<"F", "I", "L", "E">>), PyStr(<<"f", "o", "o">>)}

InitURL ==
    /\ InitCommon
    /\ adapter = "qbittorrent"
    /\ \E u \in UrlStrings : URLInit(u)
    /\ registered = CallbackNames
    /\ recording = FALSE

UrlBudget == opsIssued < MaxUrlOps

UrlAssign(u) == UrlBudget /\ AssignUrl(1, u)

UrlSchemeAssign(v) == UrlBudget /\ AssignScheme(1, v)

UrlHostAssign(v) == UrlBudget /\ AssignHost(1, v)

UrlPortAssign(v) == UrlBudget /\ AssignPort(1, v)

UrlPathAssign(v) == UrlBudget /\ AssignPath(1, v)

UrlUsernameAssign(v) == UrlBudget /\ AssignUsername(1, v)

UrlPasswordAssign(v) == UrlBudget /\ AssignPassword(1, v)

NextURL ==
    \/ \E u \in UrlStrings \cup {<<>>} : UrlAssign(u)
    \/ \E v \in UrlValues : UrlSchemeAssign(v)
    \/ \E v \in UrlValues : UrlHostAssign(v)
    \/ \E v \in UrlValues : UrlPortAssign(v)
    \/ \E v \in UrlValues : UrlPathAssign(v)
    \/ \E v \in UrlValues : UrlUsernameAssign(v)
    \/ \E v \in UrlValues : UrlPasswordAssign(v)

SpecURL == InitURL /\ [][NextURL]_vars

\* An rTorrent adapter made for one of the urls below, with or without a
\* proxy; its url and proxy_url are assigned and _connect, _call and
\* _disconnect awaited, one after the other
MaxRtorrentOps == 3

\* The default url, a socket, XML-RPC over HTTP without a path, SCGI without
\* a port, and a scheme no transport is made for
RtorrentUrls ==
    {<<"s", "c", "g", "i", ":", "/", "/", "1", "2", "7", ".", "0", ".", "0", ".", "1", ":", "5", "0", "0", "0">>,
     <<"f", "i", "l", "e", ":", "/", "/", "/", "r", "t", ".", "s", "o", "c", "k">>,
     <<"h", "t", "t", "p", ":", "/", "/", "h">>,
     <<"s", "c", "g", "i", ":", "/", "/", "h">>,
     <<"f", "t", "p", ":", "/", "/", "h", ":", "1">>}

\* 'socks5://p:1' and a string the URL constructor refuses
ProxyUrls ==
    {<<"s", "o", "c", "k", "s", "5", ":", "/", "/", "p", ":", "1">>,
     <<"s", "o", "c", "k", "s", "5", ":", "/", "/", "p", ":", "x">>}

InitRtorrent ==
    /\ Constructed("rtorrent")
    /\ \E u \in RtorrentUrls : URLInit(u)
    /\ registered = CallbackNames
    /\ recording = FALSE

RtorrentBudget == opsIssued < MaxRtorrentOps

RtUrlAssign(u) == RtorrentBudget /\ AssignUrl(1, u)

RtProxyAssign(p) == RtorrentBudget /\ AssignProxyUrl(1, p)

RtConnect(net) == RtorrentBudget /\ RtorrentConnect(1, net)

RtCall(net) == RtorrentBudget /\ RtorrentCall(1, net)

RtDisconnect == RtorrentBudget /\ RtorrentDisconnect(1)

NextRtorrent ==
    \/ \E u \in RtorrentUrls \cup {<<>>} : RtUrlAssign(u)
    \/ \E p \in ProxyUrls \cup {<<>>} : RtProxyAssign(p)
    \/ \E net \in Net : RtConnect(net)
    \/ \E net \in Net : RtCall(net)
    \/ RtDisconnect

SpecRtorrent == InitRtorrent /\ [][NextRtorrent]_vars

\* A Transmission adapter with its callbacks: one caller awaits connect(),
\* call() and disconnect(), the daemon answers each request with a status or
\* not at all, and the url is assigned meanwhile
MaxTransmissionOps == 4

InitTransmission ==
    /\ Constructed("transmission")
    /\ URLInit(default_url(adapter))
    /\ registered = CallbackNames
    /\ recording = FALSE

TransmissionBudget == opsIssued < MaxTransmissionOps

TrConnect == TransmissionBudget /\ StartConnect(1)

TrCall(a) == TransmissionBudget /\ StartCall(1, a)

TrDisconnect == TransmissionBudget /\ StartDisconnect(1)

TrAnswered(code, sid) == RequestAnswered(1, code, sid)

TrRefused == RequestRaises(1, <<"ConnectionError", "Connection refused">>)

TrCloseResumed == CloseResumed(1)

TrTeardownResumed == TeardownResumed(1)

NextTransmission ==
    \/ TrConnect
    \/ \E a \in CallArgs : TrCall(a)
    \/ TrDisconnect
    \/ \E code \in StatusCodes, sid \in SessionIds : TrAnswered(code, sid)
    \/ TrRefused
    \/ TrCloseResumed
    \/ TrTeardownResumed
    \/ SetEndpoint

SpecTransmission == InitTransmission /\ [][NextTransmission]_vars

\* An adapter with or without support for events: handlers are set and
\* unset and events arrive, one operation after the other
MaxEventOps == 4

InitEvents ==
    /\ \E a \in {EventsAdapter, "qbittorrent"} : Constructed(a)
    /\ URLInit(default_url(adapter))
    /\ registered = CallbackNames
    /\ recording = FALSE

EventBudget == opsIssued < MaxEventOps

EvSet(e, h) == EventBudget /\ SetEventHandler(1, e, h)

EvUnset(e, h) == EventBudget /\ UnsetEventHandler(1, e, h)

EvEmit(e) == EventBudget /\ EmitEvent(1, e)

NextEvents ==
    \/ \E e \in Events, h \in Handlers : EvSet(e, h)
    \/ \E e \in Events, h \in Handlers : EvUnset(e, h)
    \/ \E e \in Events : EvEmit(e)

SpecEvents == InitEvents /\ [][NextEvents]_vars

\* An adapter fresh from construction: callbacks get registered, or not,
\* while the callers await connect(), disconnect() and call()
NextBare ==
    \/ \E name \in CallbackNames : Register(name)
    \/ NextOnce

SpecBare == InitBare /\ [][NextBare]_vars

(***************************************************************************)
(* Helpers to read the events of an operation                              *)
(***************************************************************************)

Has(r, name) == \E i \in DOMAIN r : r[i][1] = name

Count(r, name) == Cardinality({i \in DOMAIN r : r[i][1] = name})

Idx(r, name) == CHOOSE i \in DOMAIN r : r[i][1] = name

\* Task t took a step (each step of a task adds to its events)
Stepped(t) == rec'[t] # rec[t]

\* Task t is inside the adapter method `name`, started and not yet over
InAdapter(t, name) == step[t] = name /\ pc[t] \in {"close_wait", "request"}

TypeOK ==
    /\ status \in ConnectionStatus
    /\ lockOwner \in Tasks \cup {0}
    /\ \A t \in Tasks : pc[t] \in {"idle", "lock_wait", "close_wait", "request", "teardown",
                                   "subscribe", "unsubscribe", "done"}

(***************************************************************************)
(* Claims                                                                  *)
(***************************************************************************)

\* C3: at most one _connect or _disconnect started by connect() or
\* disconnect() is in progress at any time, whatever the callers interleave.
C3_MutualExclusion ==
    Cardinality({t \in Tasks : InAdapter(t, "_connect") \/ InAdapter(t, "_disconnect")}) <= 1

\* One caller is inside _connect while another waits in disconnect() for the lock
C3_Witness ==
    \E t, u \in Tasks :
        /\ InAdapter(t, "_connect")
        /\ pc[u] = "lock_wait"
        /\ fn[u] = "disconnect"

\* C4: whenever a disconnect() returns or raises, status is disconnected at
\* that moment.
C4_DisconnectedOnExit ==
    [][\A t \in Tasks :
          (Stepped(t) /\ op'[t] = "disconnect" /\ pc'[t] = "done")
              => status' = "disconnected"]_vars

\* C6: call() begun while status is not connected invokes connect() once and
\* _call only after connect() returned; begun while connected it invokes
\* _call and no connect(); _call gets the caller's arguments; if connect()
\* raises, call() raises the same and _call is not invoked.
C6_CallAutoConnects ==
    \A t \in Tasks : op[t] = "call" =>
        LET r == rec[t]
            began == r[1][2]
        IN /\ Count(r, "connect()") = (IF began = "connected" THEN 0 ELSE 1)
           /\ Count(r, "_call") <= 1
           /\ began = "connected" => Has(r, "_call")
           /\ Has(r, "connect returned") => Has(r, "_call")
           /\ Has(r, "_call") =>
                /\ r[Idx(r, "_call")][2] = args[t]
                /\ began # "connected" =>
                     /\ Has(r, "connect returned")
                     /\ Idx(r, "connect()") < Idx(r, "connect returned")
                     /\ Idx(r, "connect returned") < Idx(r, "_call")
           /\ Has(r, "connect raised") =>
                /\ ~Has(r, "_call")
                /\ pc[t] = "done"
                /\ result[t] = <<r[Idx(r, "connect raised")][2], r[Idx(r, "connect raised")][3]>>

\* A call() begun while disconnected is over, having connected and called
C6_Witness ==
    \E t \in Tasks :
        /\ op[t] = "call"
        /\ rec[t][1][2] = "disconnected"
        /\ Has(rec[t], "_connect returned")
        /\ Has(rec[t], "_call returned")
        /\ pc[t] = "done"

\* C8: when _connect fails inside connect() and _disconnect does not raise,
\* then before connect() raises, in this order and once each: _disconnect is
\* invoked, status becomes disconnected, the disconnected callback runs; the
\* connected callback does not run for that attempt.
C8_FailedConnectCleansUp ==
    \A t \in Tasks :
        LET r == rec[t]
        IN (Has(r, "_connect raised") /\ Has(r, "_disconnect returned") /\ Has(r, "connect raised")) =>
             LET i == Idx(r, "_connect raised")
             IN /\ Len(r) >= i + 5
                /\ r[i + 1] = <<"_disconnect">>
                /\ r[i + 2] = <<"_disconnect returned">>
                /\ r[i + 3] = <<"status", "disconnected">>
                /\ r[i + 4] = <<"callback", "disconnected", "disconnected">>
                /\ r[i + 5][1] = "connect raised"
                /\ Count(r, "_disconnect") = 1
                /\ Count(r, "callback") = 2
                /\ \A j \in DOMAIN r : r[j][1] = "callback" => r[j][2] # "connected"

\* A connect() whose _connect ran into the deadline has raised after the cleanup
C8_Witness ==
    \E t \in Tasks :
        /\ Has(rec[t], "_connect raised")
        /\ rec[t][Idx(rec[t], "_connect raised")][2] = "asyncio.TimeoutError"
        /\ Has(rec[t], "_disconnect returned")
        /\ Has(rec[t], "connect raised")
        /\ adapter = "qbittorrent"

\* The event with which the adapter method wrapped by the operation of t failed
Wrapped(t) ==
    CASE op[t] = "connect" -> "_connect raised"
      [] op[t] = "disconnect" -> "_disconnect raised"
      [] op[t] = "call" -> "_call raised"
      [] OTHER -> None

\* C9: in connect(), disconnect() and call(), an expired deadline of the
\* wrapped adapter method reaches the caller as TimeoutError with the
\* configured timeout in its message (the value when the deadline expired or
\* the value when the error is raised), any other exception of it unchanged.
C9_ErrorsSurface ==
    [][\A t \in Tasks :
          (Stepped(t) /\ pc'[t] = "done" /\ Has(rec'[t], Wrapped(t)')) =>
              LET r == rec'[t]
                  e == r[Idx(r, Wrapped(t)')]
              IN IF e[2] = "asyncio.TimeoutError"
                 THEN result'[t] \in {<<"TimeoutError", e[3]>>, <<"TimeoutError", timeout'>>}
                 ELSE result'[t] = <<e[2], e[3]>>]_vars

\* The call() of task t began while the _connect of another caller was in flight
DuringConnect(t) == op[t] = "call" /\ awaited[t][1] # 0

\* The connect() inside the call() of task t got the lock with status s
AcquiredWith(t, s) == \E i \in DOMAIN rec[t] : rec[t][i] = <<"acquired", s>>

\* C7 as stated: a call() begun during the connect() of another caller does not
\* start _call before that _connect is over, and if that connect succeeded it
\* invokes no _connect of its own.
C7_NoSecondConnect ==
    \A t \in Tasks : DuringConnect(t) =>
        /\ Has(rec[t], "_call") => awaited[t][2] # "pending"
        /\ awaited[t][2] = "ok" => ~Has(rec[t], "_connect")

\* C7 amended: a call() begun during the connect() of another caller does not
\* start _call before that _connect is over; if that connect succeeded and
\* status is still connected when the call's own connect() holds the lock, the
\* call invokes no _connect, no _disconnect and no callback and goes on to _call.
C7_ReusesConnection ==
    \A t \in Tasks : DuringConnect(t) =>
        /\ Has(rec[t], "_call") => awaited[t][2] # "pending"
        /\ Has(rec[t], "_connect") => awaited[t][2] # "pending"
        /\ (awaited[t][2] = "ok" /\ AcquiredWith(t, "connected")) =>
              /\ ~Has(rec[t], "_connect")
              /\ ~Has(rec[t], "_disconnect")
              /\ ~Has(rec[t], "callback")
              /\ Has(rec[t], "_call")
              /\ Idx(rec[t], "acquired") + 2 = Idx(rec[t], "_call")

\* A call() begun during a connect() that then succeeded is over without a _connect
C7_Witness ==
    \E t \in Tasks :
        /\ DuringConnect(t)
        /\ awaited[t][2] = "ok"
        /\ AcquiredWith(t, "connected")
        /\ Has(rec[t], "_call returned")
        /\ pc[t] = "done"

\* C10: after the endpoint changed while status was connected and a client was
\* cached, the next call() runs _connect before _call, _get_http_client never
\* returns the client that was cached then, and once that client is no
\* longer cached it has been closed.
C10_FreshTransport ==
    /\ \A t \in Tasks : step[t] = "_call" => ~mustReconnect[t]
    /\ ~staleReturned
    /\ \A c \in stale : c # http_client => c \in closed

\* Callers whose connect() is over, and those among them whose _connect failed
Connected == {t \in Tasks : op[t] = "connect" /\ pc[t] = "done"}

Failed == {t \in Connected : Has(rec[t], "_connect raised")}

\* What the recorder sees of a failing and of a succeeding connect()
FailCycle ==
    << <<"callback", "connecting", "connecting">>, <<"_connect">>,
       <<"_disconnect">>, <<"callback", "disconnected", "disconnected">> >>

SuccessCycle ==
    << <<"callback", "connecting", "connecting">>, <<"_connect">>,
       <<"callback", "connected", "connected">> >>

RECURSIVE Cycles(_)
Cycles(n) == IF n = 0 THEN <<>> ELSE FailCycle \o Cycles(n - 1)

\* C1: N >= 2 callers await connect() on a disconnected adapter, _connect
\* fails N-1 times and succeeds the N-th time, _disconnect does not raise.
\* Then status is connected, the recorder saw N-1 times (connecting callback,
\* _connect, _disconnect, disconnected callback) and then (connecting
\* callback, _connect, connected callback), and each failing caller got the
\* failure of its own _connect.
C1_RetryUntilConnected ==
    LET N == Cardinality(Connected)
    IN (/\ \A t \in Tasks : Free(t)
        /\ N >= 2
        /\ Cardinality(Failed) = N - 1
        /\ \A t \in Connected : Has(rec[t], "_connect") /\ ~Has(rec[t], "_disconnect raised")) =>
           /\ status = "connected"
           /\ observed = Cycles(N - 1) \o SuccessCycle
           /\ \A t \in Failed :
                LET e == rec[t][Idx(rec[t], "_connect raised")]
                IN result[t] = (IF e[2] = "asyncio.TimeoutError"
                                THEN <<"TimeoutError", timeout>> ELSE <<e[2], e[3]>>)
           /\ \A t \in Connected \ Failed : result[t] = Ok

\* Four callers, three failed attempts of three kinds, then success
C1_Witness ==
    /\ Connected = Tasks
    /\ Cardinality(Failed) = NumTasks - 1
    /\ Cardinality({result[t] : t \in Tasks}) = NumTasks
    /\ \A t \in Tasks : Has(rec[t], "_connect") /\ ~Has(rec[t], "_disconnect raised")
    /\ adapter = "qbittorrent"
    /\ status = "connected"

\* s is an initial part of q
IsPrefix(s, q) == Len(s) <= Len(q) /\ \A i \in DOMAIN s : s[i] = q[i]

\* C2: when no _connect fails, however many callers await connect(), the
\* recorder sees (connecting callback, _connect, connected callback) once and
\* nothing else; and a step in which a connect() holds the lock with status
\* connected invokes nothing, leaves status connected and returns normally.
C2_Coalesces ==
    [][/\ (\A t \in Tasks : ~Has(rec'[t], "_connect raised")) =>
             /\ IsPrefix(observed', SuccessCycle)
             /\ Connected' # {} => observed' = SuccessCycle
       /\ \A t \in Tasks :
             (Stepped(t) /\ op'[t] = "connect" /\ AcquiredWith(t, "connected")') =>
                 /\ status = "connected" /\ status' = "connected"
                 /\ observed' = observed
                 /\ rec'[t] = << rec'[t][1], <<"acquired", "connected">>,
                                 <<"connect returned">>, <<"return">> >>
                 /\ pc'[t] = "done"
                 /\ result'[t] = Ok]_vars

\* All callers are done: one connected, the others waited for the lock and
\* found status connected
C2_Witness ==
    /\ Connected = Tasks
    /\ Failed = {}
    /\ Cardinality({t \in Tasks : Has(rec[t], "_connect")}) = 1
    /\ Cardinality({t \in Tasks : rec[t][1] = <<"connect", "connecting">>
                                  /\ AcquiredWith(t, "connected")}) = NumTasks - 1

\* The callers of disconnect(), those that invoked _disconnect, those that
\* fired the disconnected callback
Disconnectors == {t \in Tasks : op[t] = "disconnect"}

Doers == {t \in Disconnectors : Has(rec[t], "_disconnect")}

Notifiers == {t \in Disconnectors : Has(rec[t], "callback")}

C11_NeverStale ==
    [][/\ endpoint' # endpoint => status' # "connected"
       /\ \A t \in Tasks :
             (Stepped(t) /\ status # "connected" /\ status' = "connected") =>
                 /\ Has(rec'[t], "endpoint")
                 /\ rec'[t][Idx(rec'[t], "endpoint")][2] = Decimal(endpoint')]_vars

\* The disconnect() of task t gets the lock in this step and finds status disconnected
FindsDisconnected(t) ==
    /\ Stepped(t)
    /\ op'[t] = "disconnect"
    /\ ~Has(rec[t], "acquired") \/ op[t] # "disconnect" \/ pc[t] \in {"idle", "done"}
    /\ \E i \in DOMAIN rec'[t] : rec'[t][i] = <<"acquired", "disconnected">>

ExitsDisconnect(t) ==
    /\ Stepped(t)
    /\ op'[t] = "disconnect"
    /\ pc[t] # "teardown"
    /\ pc'[t] \in {"teardown", "done"}

ConnectPrefix ==
    << <<"call", "disconnected">>, <<"connect()">>, <<"acquired", "disconnected">>,
       <<"status", "connecting">>, <<"callback", "connecting", "connecting">> >>

C15_NoDeadlock ==
    /\ [](\A t \in Tasks : lockOwner = t =>
             /\ pc[t] \in {"request", "close_wait"}
             /\ step[t] \in {"_connect", "_disconnect"})
    /\ \A t \in Callers : (pc[t] = "lock_wait") ~> Has(rec[t], "acquired")
    /\ \A t \in Callers : (pc[t] # "idle") ~> (pc[t] = "done")

\* A disconnect() waits for the lock while its holder, a connect() whose
\* _connect failed, is inside the _disconnect that cleans up
C15_Witness ==
    \E t, u \in Callers :
        /\ lockOwner = t
        /\ fn[t] = "connect"
        /\ step[t] = "_disconnect"
        /\ pc[t] = "request"
        /\ fn[u] = "disconnect"
        /\ pc[u] = "lock_wait"
        /\ waiters = <<u>>

\* C16: whenever connect(), disconnect() or call() is suspended inside the
\* adapter's _connect, _disconnect or _call, a deadline of `timeout` seconds
\* runs, so a request that is never answered cannot keep the caller, and the
\* lock it holds, forever.
C16_DeadlineEverywhere ==
    \A t \in Tasks :
        (pc[t] = "request" /\ step[t] \in {"_connect", "_disconnect", "_call"}) =>
            UnderDeadline(t)

\* C17: status is one of disconnected, connecting, connected, and every change
\* of it is disconnected -> connecting, connecting -> connected,
\* connecting -> disconnected or connected -> disconnected.
C17_StateMachine ==
    [][/\ status' \in ConnectionStatus
       /\ status' # status =>
              <<status, status'>> \in {<<"disconnected", "connecting">>,
                                       <<"connecting", "connected">>,
                                       <<"connecting", "disconnected">>,
                                       <<"connected", "disconnected">>}]_vars

\* The assignments of test_timeout and what rpc.timeout is after them
exp_timeout(v) ==
    CASE v = PyInt(1, 0) -> "1.0"
      [] v = PyFloat(25, 0 - 1) -> "2.5"
      [] v \in {PyInt(0, 0), PyNone, PyBool(FALSE)} -> default_timeout

\* Task t has just assigned v to rpc.timeout
Assigned(t, v) ==
    /\ mutations' # mutations
    /\ op'[t] = "timeout="
    /\ rec'[t][2] = <<"value", v>>

\* C18: assigning 0, None or False to timeout sets it to the default; a number
\* sets it to that number as a float; a value that is not a number raises the
\* package's ValueError, leaves timeout as it was and invalidates nothing;
\* every assignment that succeeds calls _invalidate_http_client once.
C18_TimeoutSetter ==
    [][\A t \in Tasks, v \in TimeoutInputs : Assigned(t, v) =>
          /\ v \in {PyInt(0, 0), PyNone, PyBool(FALSE)} =>
                 result'[t] = Ok /\ timeout' = default_timeout
          /\ (v.type \in {"int", "float"} /\ v.num # 0) =>
                 /\ result'[t] = Ok
                 /\ v \in {PyInt(1, 0), PyFloat(25, 0 - 1)} => timeout' = exp_timeout(v)
          /\ v \in {PyStr(<<"f", "o", "o">>), PyList(1)} =>
                 /\ result'[t] = <<"ValueError", "Invalid timeout">>
                 /\ timeout' = timeout
                 /\ invalidated' = invalidated
                 /\ status' = status
                 /\ ~Has(rec'[t], "_invalidate_http_client")
          /\ result'[t] = Ok =>
                 /\ Count(rec'[t], "_invalidate_http_client") = 1
                 /\ status' = "disconnected"
                 /\ http_client # 0 => invalidated']_vars

\* C19: connect(), disconnect() and call() on an adapter without registered
\* callbacks never raise because a callback is missing.
C19_CallbacksOptional ==
    \A t \in Tasks, name \in CallbackNames :
        (registered = {} /\ pc[t] = "done") => result[t] # AttributeError("_on_" \o name)

\* Task t has just assigned v to rpc.url.port
AssignedPort(t, v) ==
    /\ mutations' # mutations
    /\ op'[t] = "port="
    /\ rec'[t][2] = <<"value", v>>

\* port is None or the decimal string of an integer in [1, 65535]
PortOK ==
    \/ port = PyNone
    \/ /\ port.type = "str"
       /\ IsDigits(port.text)
       /\ port.text[1] # "0"
       /\ ToNat(port.text) \in 1..65535

\* The assignments of test_URL_port that end with ValueError, with the same
\* numbers as float, and the ones that set the port
PortsBelow == {PyInt(0 - 1, 0), PyInt(0, 0), PyStr(<<"-", "1">>), PyFloat(5, 0 - 1)}

PortsAbove == {PyInt(65536, 0), PyStr(<<"6", "5", "5", "3", "6">>), PyInt(1, 400), PyInf}

PortsNonNumeric == {PyStr(<<"f", "o", "o">>), PyList(1), PyNan}

PortsFalsy == {PyInt(0, 0), PyNone, PyBool(FALSE), PyStr(<<>>)}

\* What url.port is after the assignment of v, as decimal number
exp_port(v) ==
    CASE v \in {PyInt(1, 0), PyStr(<<"1">>), PyBool(TRUE)} -> 1
      [] v \in {PyInt(65535, 0), PyStr(<<"6", "5", "5", "3", "5">>)} -> 65535
      [] v \in {PyFloat(809, 0 - 1), PyStr(<<"0", "8", "0">>), PyStr(<<" ", "8", "0", " ">>)} -> 80

PortsValid == {v \in PortInputs : v \notin PortsBelow \cup PortsAbove \cup PortsNonNumeric \cup PortsFalsy}

AssignedField(t, name, v) ==
    /\ mutations' # mutations
    /\ op'[t] = name
    /\ rec'[t][2] = <<"value", v>>

\* host, port, username and password of rpc.url
NetworkFields == <<host, port, username, password>>

\* C21: whatever string the URL was made from and whatever was assigned to
\* its fields since, a URL with the scheme file has no host, port, username
\* or password; an assignment to one of the four on a file URL returns and
\* leaves all four absent.
C21_FileInvariant ==
    /\ [](scheme = File => NetworkFields = <<PyNone, PyNone, PyNone, PyNone>>)
    /\ [][\A t \in Tasks, v \in UrlValues :
            \A name \in {"host=", "port=", "username=", "password="} :
                (AssignedField(t, name, v) /\ scheme = File) =>
                    /\ result'[t] = Ok
                    /\ scheme' = File
                    /\ NetworkFields' = <<PyNone, PyNone, PyNone, PyNone>>]_vars

\* 'foo' was assigned to the host of a URL that has the scheme file and a
\* path: there is no host
C21_Witness ==
    /\ op[1] = "host="
    /\ pc[1] = "done"
    /\ rec[1][2] = <<"value", PyStr(<<"f", "o", "o">>)>>
    /\ result[1] = Ok
    /\ scheme = File
    /\ path # PyNone
    /\ host = PyNone

\* C22: an assignment of another scheme than file changes the scheme and
\* nothing else: host, port, username and password are what they were, set
\* or absent, and so is the path; an assignment of the scheme file leaves
\* none of the four.
C22_SchemeFrame ==
    [][\A t \in Tasks, v \in UrlValues : AssignedField(t, "scheme=", v) =>
          /\ result'[t] = Ok
          /\ v = PyStr(<<"t", "h", "i", "s">>) => scheme' = v
          /\ v = PyStr(<<"F", "I", "L", "E">>) => scheme' = File
          /\ scheme' # File => NetworkFields' = NetworkFields /\ path' = path
          /\ scheme' = File => NetworkFields' = <<PyNone, PyNone, PyNone, PyNone>>]_vars

\* The scheme 'foo' was assigned to a URL with host, port, username and
\* password: it has them still
C22_Witness ==
    /\ op[1] = "scheme="
    /\ pc[1] = "done"
    /\ rec[1][2] = <<"value", PyStr(<<"f", "o", "o">>)>>
    /\ scheme = PyStr(<<"f", "o", "o">>)
    /\ host = PyStr(<<"l", "o", "c", "a", "l", "h", "o", "s", "t">>)
    /\ port = PyStr(<<"5", "5", "5">>)
    /\ username = PyStr(<<"a">>)
    /\ password = PyStr(<<"b">>)

\* The operations that assign to rpc.url or to a field of it
UrlOps == {"url=", "scheme=", "host=", "port=", "path=", "username=", "password="}

\* C23: an assignment to scheme, host, port, path, username or password that
\* returns calls the change callback exactly once and without arguments,
\* whatever the value and the field had before; one that raises does not
\* call it; the constructor of a URL does not call it.
C23_ChangeNotification ==
    [][\A t \in Tasks :
          (mutations' # mutations /\ op'[t] \in UrlOps /\ pc'[t] = "done") =>
              /\ (op'[t] # "url=" /\ result'[t] = Ok) =>
                     /\ Count(rec'[t], "on_change") = 1
                     /\ rec'[t][Idx(rec'[t], "on_change")] = <<"on_change">>
              /\ (op'[t] = "url=" \/ result'[t] # Ok) => ~Has(rec'[t], "on_change")
              /\ on_change' = InvalidateCallback]_vars

\* The scheme 'this' was assigned to a URL made from
\* 'this://a:b@localhost:555/some/path' and the callback was called
C23_Witness ==
    /\ mutations = 1
    /\ op[1] = "scheme="
    /\ pc[1] = "done"
    /\ rec[1][2] = <<"value", PyStr(<<"t", "h", "i", "s">>)>>
    /\ scheme = PyStr(<<"t", "h", "i", "s">>)
    /\ username = PyStr(<<"a">>)
    /\ Count(rec[1], "on_change") = 1

\* What the claim calls the string form of a value that is no str: str(v),
\* for the scheme in lower case
StringForm(name, v) == IF name = "scheme=" THEN PyStr(lower(str(v).text)) ELSE str(v)

\* The field of rpc.url an assignment is made to, after it
FieldAfter(name) ==
    CASE name = "scheme=" -> scheme'
      [] name = "host=" -> host'
      [] name = "port=" -> port'
      [] name = "path=" -> path'
      [] name = "username=" -> username'
      [] name = "password=" -> password'

\* C24: for each of scheme, host, port, path, username and password, the
\* assignment of a falsy value (None, False, 0, '') leaves the field absent
\* (None); the assignment of another value stores its string form (read with
\* what C20 and C21 say: a port is the string of an integer in [1, 65535]
\* or rejected, and a URL with the scheme file has none of the four network
\* fields).
C24_FalsyResets ==
    [][\A t \in Tasks, v \in UrlValues, name \in UrlOps \ {"url="} :
          AssignedField(t, name, v) =>
              /\ ~Truthy(v) => result'[t] = Ok /\ FieldAfter(name) = PyNone
              /\ (/\ Truthy(v)
                  /\ name \in {"scheme=", "path="} \/ scheme # File
                  /\ name = "port=" => v.type = "int") =>
                     result'[t] = Ok /\ FieldAfter(name) = StringForm(name, v)]_vars

\* The events of a transport that opens a connection or sends a request
Connections ==
    {"http_client.stream", "proxy.connect", "asyncio.open_connection",
     "asyncio.open_unix_connection"}

\* C25: an rTorrent adapter whose url has the scheme file and which has a
\* proxy_url never opens a connection: _connect, and _call on the transport
\* of an earlier _connect, raise the package's ValueError and neither the
\* proxy nor the socket is connected to.
C25_NoProxyForSocket ==
    [][(/\ opsIssued' # opsIssued
        /\ scheme = File
        /\ proxy_url # PyNone
        /\ \/ op'[1] = "_connect"
           \/ op'[1] = "_call" /\ xmlrpc # PyNone)
       => /\ result'[1][1] = "ValueError"
          /\ \A i \in DOMAIN rec'[1] : rec'[1][i][1] \notin Connections]_vars

\* The status codes of the responses the operation of task t got so far
Responses(t) ==
    LET got == SelectSeq(rec[t], LAMBDA e : e[1] = "response")
    IN [i \in DOMAIN got |-> got[i][2]]

\* connect() of task 1 got 409 with a session id, then 200, and is over
SessionEstablished ==
    /\ op[1] = "connect"
    /\ pc[1] = "done"
    /\ Responses(1) = <<"409", "200">>

\* This step handles a 409 response to the first request of a _connect
StoresSession ==
    /\ pc[1] = "request"
    /\ step[1] = "_connect"
    /\ Len(posted[1]) = 1
    /\ Len(rec'[1]) > Len(rec[1])
    /\ rec'[1][Len(rec[1]) + 1][1] = "response"
    /\ rec'[1][Len(rec[1]) + 1][2] = "409"

\* This step runs the adapter's _disconnect
RunsDisconnect == \E i \in DOMAIN rec'[1] : rec'[1][i][1] = "_disconnect"

\* disconnect() of task 1 has returned
DisconnectReturned == op[1] = "disconnect" /\ pc[1] = "done" /\ result[1] = Ok

\* C26: a connect() whose first request is answered 409 with a session id
\* and whose second is answered 200 succeeds; from then on the header is
\* sent with every request until disconnect(); when disconnect() has
\* returned the stored headers are empty, so that no later request carries
\* the old session id.
C26_SessionHeader ==
    [][/\ SessionEstablished' => result'[1] = Ok
       /\ Len(posted'[1]) > Len(posted[1])
            => posted'[1][Len(posted'[1])] = http_headers'
       /\ http_headers' # http_headers => StoresSession \/ RunsDisconnect
       /\ DisconnectReturned' => http_headers' = {}]_vars

\* The operation of this step invoked the protocol-level method for event e
Invoked(name, e) == \E i \in DOMAIN rec'[1] : rec'[1][i] = <<name, e>>

\* The handlers the operation of this step called, in order
Called ==
    LET calls == SelectSeq(rec'[1], LAMBDA ev : ev[1] = "handler")
    IN [i \in DOMAIN calls |-> calls[i][2]]

\* C27: on an adapter that supports events, over any sequence of
\* set_event_handler, unset_event_handler and _emit_event, _subscribe(event)
\* is invoked exactly by the operations that take the number of handlers of
\* the event from 0 to 1 and _unsubscribe(event) exactly by those that take
\* it from 1 to 0; no handler is twice in the list of an event and
\* _emit_event calls each handler of the event once.
C27_ReferenceCounted ==
    [][(adapter = EventsAdapter /\ opsIssued' # opsIssued)
       => \A e \in Events :
            /\ Invoked("_subscribe", e)
                 <=> /\ Len(event_handlers[e].handlers) = 0
                     /\ Len(event_handlers'[e].handlers) = 1
            /\ Invoked("_unsubscribe", e)
                 <=> /\ Len(event_handlers[e].handlers) = 1
                     /\ Len(event_handlers'[e].handlers) = 0
            /\ \A i, j \in DOMAIN event_handlers'[e].handlers :
                 event_handlers'[e].handlers[i] = event_handlers'[e].handlers[j] => i = j
            /\ (op'[1] = "_emit_event" /\ rec'[1][2][2] = e)
                 => Called = event_handlers[e].handlers]_vars

\* C28: unset_event_handler(event, handler) with a handler that is not in the
\* list of the event leaves the handlers of every event as they are, invokes
\* no _unsubscribe and returns normally, whether the event has other
\* handlers or none.
C28_UnsetUnregistered ==
    [][(/\ adapter = EventsAdapter
        /\ opsIssued' # opsIssued
        /\ op'[1] = "unset_event_handler"
        /\ ~In(rec'[1][2][3], event_handlers[rec'[1][2][2]].handlers))
       => /\ \A e \in Events : event_handlers'[e].handlers = event_handlers[e].handlers
          /\ \A e \in Events : ~Invoked("_unsubscribe", e)
          /\ result'[1] = Ok]_vars

\* C29: the _disconnect of no adapter raises, whatever the daemon does: the
\* only exception that ever leaves a _disconnect is the one of the deadline
\* of disconnect(), which is not the adapter's.
C29_DisconnectNeverRaises ==
    \A t \in Tasks : \A i \in DOMAIN rec[t] :
        rec[t][i][1] = "_disconnect raised" => rec[t][i][2] = "asyncio.TimeoutError"

\* The callback events of the current operation of task t
Callbacks(t) == {i \in DOMAIN rec[t] : rec[t][i][1] = "callback"}

\* C30: whenever a connection callback runs, status already has the value
\* the callback is named after: connecting for the connecting callback,
\* connected for the connected one, disconnected for the disconnected one.
C30_CallbackAfterStatus ==
    \A t \in Tasks : \A i \in Callbacks(t) : rec[t][i][3] = rec[t][i][2]

\* A call() that connected by itself ran the connecting and the connected
\* callback, and a disconnect() ran the disconnected one
C30_Witness ==
    \E t, u \in Tasks :
        /\ op[t] = "call"
        /\ {rec[t][i][2] : i \in Callbacks(t)} = {"connecting", "connected"}
        /\ op[u] = "disconnect"
        /\ {rec[u][i][2] : i \in Callbacks(u)} = {"disconnected"}

(***************************************************************************)
(* One request over an SCGI connection: _ScgiTransportBase.request, _send   *)
(* and _read, consumed by _AsyncServerProxy._parse_response                 *)
(***************************************************************************)

\* The chunk size request() passes to _read
chunk_size == 1024

\* _path of the transports: the default and a path taken from the URL
ScgiPaths == {<<"/", "R", "P", "C", "2">>, <<"/", "R", "P", "C", "3">>}

\* XML-RPC request bodies: empty, shorter and longer than nine bytes
Bodies ==
    {<<>>,
     <<"f", "o", "o">>,
     <<"<", "m", "e", "t", "h", "o", "d", "C", "a", "l", "l", ">">>}

\* Header blocks a peer sends: lines separated by CR LF, the last one bare
ResponseHeaders == {<<>>, <<"S">>, <<"S", CR>>, <<"S", CR, LF, "T">>}

\* Payloads a peer sends, one of them containing the delimiter again
Payloads == {<<>>, <<"p">>, <<CR, LF>>, <<"p", CR, LF, CR, LF, "q">>}

ScgiLog(s, event) == [s EXCEPT !.log = Append(@, <<event>>)]

\* `finally:` of _read: writer.close(), then await writer.wait_closed()
ScgiFinally(s, e) == [ScgiLog(s, "close") EXCEPT !.pc = "wait_closed", !.exc = e]

\* `yield` in _read, passed on by request(): the consumer receives the chunk
ScgiYield(s, chunk, at) ==
    [s EXCEPT !.pc = at, !.chunk = chunk, !.yielded = @ \o chunk]

\* `chunk = await reader.read(chunk_size)` is issued
ScgiAwaitRead(s) == [ScgiLog(s, "read") EXCEPT !.pc = "read"]

\* Faulty variant: the headers read so far are dropped with every chunk
ScgiReadReturnedForgetful(s, chunk) ==
    IF chunk = <<>> THEN ScgiFinally(s, NoExc)
    ELSE IF s.headers_done THEN ScgiYield(s, chunk, "yield")
    ELSE IF FindBytes(chunk, headers_delim) # 0
    THEN LET first == SubSeq(chunk, FindBytes(chunk, headers_delim) + Len(headers_delim),
                             Len(chunk))
         IN IF first # <<>> THEN ScgiYield(s, first, "yield_first")
            ELSE ScgiAwaitRead([s EXCEPT !.headers_done = TRUE])
    ELSE ScgiAwaitRead(s)

\* The body of the loop of _read once reader.read() returned chunk
ScgiReadReturned(s, chunk) ==
    IF chunk = <<>> THEN ScgiFinally(s, NoExc)
    ELSE IF s.headers_done THEN ScgiYield(s, chunk, "yield")
    ELSE LET combined_headers == s.combined_headers \o chunk
             payload_start == FindBytes(combined_headers, headers_delim) + Len(headers_delim)
             first_payload_chunk == SubSeq(combined_headers, payload_start, Len(combined_headers))
             c == [s EXCEPT !.combined_headers = combined_headers]
         IN IF FindBytes(combined_headers, headers_delim) # 0
            THEN IF first_payload_chunk # <<>>
                 THEN ScgiYield(c, first_payload_chunk, "yield_first")
                 ELSE ScgiAwaitRead([c EXCEPT !.headers_done = TRUE, !.combined_headers = <<>>])
            ELSE ScgiAwaitRead(c)

\* _ScgiHostTransport.__init__ and _ScgiSocketTransport.__init__ set self._path
ScgiConstructed(p) ==
    /\ scgi.pc = "absent"
    /\ Commit([M EXCEPT !.scgi = ScgiTransport(p)])

\* The consumer starts iterating request(data); the peer will answer with
\* headers h and, when d, the delimiter and the payload p
ScgiRequest(data, h, p, d) ==
    /\ scgi.pc = "idle"
    /\ Commit([M EXCEPT !.scgi = [@ EXCEPT !.pc = "get_reader_writer", !.data = data,
                                         !.headers = h, !.payload = p, !.delimited = d,
                                         !.stream = IF d THEN h \o headers_delim \o p ELSE h]])

\* _get_reader_writer returns or raises; then _send writes the encoded request
ScgiConnected(ok) ==
    /\ scgi.pc = "get_reader_writer"
    /\ Commit([M EXCEPT !.scgi =
            IF ok
            THEN [ScgiLog(ScgiLog(@, "open"), "write") EXCEPT
                     !.pc = "drain", !.written = _encode_request(scgi.path, scgi.data)]
            ELSE [@ EXCEPT !.pc = "done", !.exc = <<"ConnectionRefusedError", "">>]])

\* writer.drain() returns or raises; _read starts when it returned
ScgiDrained(ok) ==
    /\ scgi.pc = "drain"
    /\ Commit([M EXCEPT !.scgi =
            IF ok
            THEN ScgiAwaitRead([@ EXCEPT !.headers_done = FALSE, !.combined_headers = <<>>])
            ELSE [@ EXCEPT !.pc = "done", !.exc = <<"ConnectionResetError", "">>]])

\* reader.read(chunk_size) returns the next n bytes of the stream, none at its end
ScgiReadReturns(n) ==
    /\ scgi.pc = "read"
    /\ n <= chunk_size
    /\ n <= Len(scgi.stream)
    /\ n = 0 <=> scgi.stream = <<>>
    /\ Commit([M EXCEPT !.scgi =
            ScgiReadReturned([@ EXCEPT !.stream = SubSeq(@, n + 1, Len(@))],
                             SubSeq(@.stream, 1, n))])

\* reader.read(chunk_size) raises
ScgiReadRaises ==
    /\ scgi.pc = "read"
    /\ Commit([M EXCEPT !.scgi = ScgiFinally(@, <<"ConnectionResetError", "">>)])

\* The consumer fed the chunk to its parser: it asks for the next one, or the
\* parser raised and the generator is left suspended at its yield
ScgiFed(ok) ==
    /\ scgi.pc \in {"yield", "yield_first"}
    /\ Commit([M EXCEPT !.scgi =
            IF ~ok THEN [@ EXCEPT !.pc = "abandoned"]
            ELSE IF @.pc = "yield_first"
            THEN ScgiAwaitRead([@ EXCEPT !.headers_done = TRUE, !.combined_headers = <<>>])
            ELSE ScgiAwaitRead(@)])

\* The abandoned generator is finalized: GeneratorExit is raised at its yield
ScgiFinalized ==
    /\ scgi.pc = "abandoned"
    /\ Commit([M EXCEPT !.scgi = ScgiFinally(@, <<"GeneratorExit", "">>)])

\* writer.wait_closed() returns or raises
ScgiWaitClosed(ok) ==
    /\ scgi.pc = "wait_closed"
    /\ Commit([M EXCEPT !.scgi =
            [@ EXCEPT !.pc = "done",
                      !.exc = IF ok THEN @ ELSE <<"ConnectionResetError", "">>]])

InitScgi ==
    /\ Constructed("rtorrent")
    /\ URLInit(default_url(adapter))
    /\ registered = CallbackNames
    /\ recording = FALSE

ScConstructed == \E p \in ScgiPaths : ScgiConstructed(p)

ScRequest ==
    \E data \in Bodies, h \in ResponseHeaders, p \in Payloads, d \in BOOLEAN :
        ScgiRequest(data, h, p, d)

ScConnected == \E ok \in BOOLEAN : ScgiConnected(ok)

ScDrained == \E ok \in BOOLEAN : ScgiDrained(ok)

ScReadReturns == \E n \in 0..Len(scgi.stream) : ScgiReadReturns(n)

ScFed == \E ok \in BOOLEAN : ScgiFed(ok)

ScWaitClosed == \E ok \in BOOLEAN : ScgiWaitClosed(ok)

NextScgi ==
    \/ ScConstructed
    \/ ScRequest
    \/ ScConnected
    \/ ScDrained
    \/ ScReadReturns
    \/ ScgiReadRaises
    \/ ScFed
    \/ ScgiFinalized
    \/ ScWaitClosed

SpecScgi == InitScgi /\ [][NextScgi]_vars

(***************************************************************************)
(* Claims about the SCGI transport                                          *)
(***************************************************************************)

\* The bytes of the payload that were read from the connection so far
PayloadRead ==
    LET total == Len(scgi.headers) + Len(headers_delim) + Len(scgi.payload)
        read == total - Len(scgi.stream)
        n == read - Len(scgi.headers) - Len(headers_delim)
    IN SubSeq(scgi.payload, 1, IF n > 0 THEN n ELSE 0)

\* C31: for every stream headers + CR LF CR LF + payload and every way the
\* reads cut it, the chunks yielded so far concatenate to exactly the bytes of
\* the payload read so far: nothing of the headers or the delimiter, all of the
\* chunk that completed the delimiter, a later delimiter passed through; after
\* the last read that is the whole payload
C31_PayloadReassembled ==
    scgi.delimited => scgi.yielded = PayloadRead

\* A stream with a delimiter inside the payload was read one byte at a time to
\* its end, and the consumer received the payload
C31_Witness ==
    /\ scgi.pc = "done"
    /\ scgi.exc = NoExc
    /\ scgi.delimited
    /\ scgi.headers = <<"S", CR, LF, "T">>
    /\ scgi.payload = <<"p", CR, LF, CR, LF, "q">>
    /\ scgi.yielded = scgi.payload
    /\ Count(scgi.log, "read") = Len(scgi.headers) + Len(headers_delim) + Len(scgi.payload) + 1

\* Position of the first event named name in a log, 0 when there is none
FirstAt(log, name) ==
    IF Has(log, name)
    THEN CHOOSE i \in 1..Len(log) : log[i][1] = name /\ \A j \in 1..(i - 1) : log[j][1] # name
    ELSE 0

\* C32: every request that opened a connection and ended has closed the writer
\* exactly once, and issued no read after closing it
C32_WriterClosedOnce ==
    (scgi.pc = "done" /\ Has(scgi.log, "open")) =>
        /\ Count(scgi.log, "close") = 1
        /\ \A i \in 1..Len(scgi.log) :
               scgi.log[i][1] = "read" => i < FirstAt(scgi.log, "close")

\* Total length of the first k sequences of list
RECURSIVE SumLens(_, _)
SumLens(list, k) == IF k = 0 THEN 0 ELSE SumLens(list, k - 1) + Len(list[k])

\* C33: the bytes written for body data on a transport with path p are
\* <n>:<H>,<data>, H being CONTENT_LENGTH NUL len(data) NUL SCGI NUL 1 NUL
\* REQUEST_METHOD NUL POST NUL REQUEST_URI NUL p NUL in this order and n the
\* decimal number of its bytes
C33_RequestFraming ==
    Has(scgi.log, "write") =>
        \E n \in 1..Len(scgi.written) :
            LET H == SubSeq(scgi.written, n + 2, Len(scgi.written) - Len(scgi.data) - 1)
                fields == <<<<"C", "O", "N", "T", "E", "N", "T", "_", "L", "E", "N", "G", "T", "H">>,
                            Chars(Len(scgi.data)),
                            <<"S", "C", "G", "I">>, <<"1">>,
                            <<"R", "E", "Q", "U", "E", "S", "T", "_", "M", "E", "T", "H", "O", "D">>,
                            <<"P", "O", "S", "T">>,
                            <<"R", "E", "Q", "U", "E", "S", "T", "_", "U", "R", "I">>,
                            scgi.path>>
                start(k) == SumLens(fields, k - 1) + k
            IN /\ SubSeq(scgi.written, 1, n) = Chars(Len(H))
               /\ scgi.written[n + 1] = ":"
               /\ scgi.written[Len(scgi.written) - Len(scgi.data)] = ","
               /\ SubSeq(scgi.written, Len(scgi.written) - Len(scgi.data) + 1,
                         Len(scgi.written)) = scgi.data
               /\ Len(H) = SumLens(fields, Len(fields)) + Len(fields)
               /\ \A k \in 1..Len(fields) :
                      /\ SubSeq(H, start(k), start(k) + Len(fields[k]) - 1) = fields[k]
                      /\ H[start(k) + Len(fields[k])] = NUL

\* A body of twelve bytes was written for the path /RPC3
C33_Witness ==
    /\ Has(scgi.log, "write")
    /\ Len(scgi.data) = Len(<<"<", "m", "e", "t", "h", "o", "d", "C", "a", "l", "l", ">">>)
    /\ scgi.path = <<"/", "R", "P", "C", "3">>
    /\ SubSeq(scgi.written, 1, 3) = <<"6", "3", ":">>

(***************************************************************************)
(* Claims about the connection state across failures and teardown           *)
(***************************************************************************)

\* C34: whenever no task executes connect() (every connect() issued has
\* returned or raised), status is connected or disconnected, not connecting
C34_ConnectingTransient ==
    (\A t \in Tasks : fn[t] # "connect") => status # "connecting"

\* Position of the last event named name in a log, 0 when there is none
LastAt(log, name) ==
    IF Has(log, name)
    THEN CHOOSE i \in 1..Len(log) : log[i][1] = name /\ \A j \in (i + 1)..Len(log) : log[j][1] # name
    ELSE 0

\* C35: the step in which the _call of a call() fails (an exception of the
\* adapter or the deadline) changes neither status nor the cached client nor
\* the lock, closes nothing, and after `_call` began the call() invoked no
\* _disconnect and no callback; the next call() of the caller, status being
\* connected, goes straight to _call without connect()
C35_FailedCallKeepsConnection ==
    [][\A t \in Tasks :
        /\ (step[t] = "_call" /\ pc'[t] = "done" /\ result'[t] # Ok) =>
              /\ status' = status
              /\ http_client' = http_client
              /\ invalidated' = invalidated
              /\ clients' = clients
              /\ closed' = closed
              /\ lockOwner' = lockOwner
              /\ \A i \in (LastAt(rec'[t], "_call") + 1)..Len(rec'[t]) :
                     rec'[t][i][1] \notin {"_disconnect", "callback", "status", "connect()"}
        /\ (/\ pc[t] = "done" /\ op[t] = "call" /\ Has(rec[t], "_call raised")
            /\ status = "connected" /\ pc'[t] # "done" /\ op'[t] = "call") =>
              /\ step'[t] = "_call"
              /\ ~Has(rec'[t], "connect()")
              /\ status' = "connected"]_vars

\* A call() failed in _call on a connected adapter, which is still connected
\* and still has its client
C35_Witness ==
    \E t \in Tasks :
        /\ pc[t] = "done"
        /\ op[t] = "call"
        /\ Has(rec[t], "_call raised")
        /\ result[t] # Ok
        /\ status = "connected"
        /\ http_client # 0
        /\ http_client \notin closed

\* C36: no client is closed while a request made with it is in flight: the
\* client a suspended _connect, _call or _disconnect posted its request with
\* has not been passed to aclose()
C36_NoTeardownInFlight ==
    \A t \in Tasks : (pc[t] = "request" /\ client[t] # 0) => client[t] \notin closed

\* Task t is suspended in `await self._http_client.aclose()`
Closing(t) == pc[t] \in {"close_wait", "teardown"}

\* C37: overlapping teardowns close every client once and fail nobody: no two
\* tasks are in aclose() of the same client, and no operation ends with the
\* AttributeError of `delattr(self, '_http_client')`
C37_TeardownIdempotent ==
    /\ \A t, u \in Tasks : (t # u /\ Closing(t) /\ Closing(u)) => client[t] # client[u]
    /\ \A t \in Tasks : result[t] # AttributeError("_http_client")

\* C38: a request is never begun with a client whose teardown has begun: in
\* the step in which a task posts a request, the client it posts with has not
\* been passed to aclose(); and a teardown that finishes removes only the
\* client it closed
C38_NoClosingClientHandedOut ==
    [][\A t \in Tasks :
          /\ (pc'[t] = "request" /\ (pc[t] # "request" \/ rec'[t] # rec[t])) =>
                client'[t] \notin closed'
          /\ (Closing(t) /\ ~Closing(t)' /\ http_client # 0 /\ http_client # client[t]) =>
                http_client' = http_client]_vars

\* Number of disconnected callbacks task t invoked in this step
Fired(t) ==
    IF ~Stepped(t) THEN 0
    ELSE LET old == IF Free(t) THEN 0 ELSE Len(rec[t])
         IN Cardinality({i \in (old + 1)..Len(rec'[t]) :
                            /\ rec'[t][i][1] = "callback"
                            /\ rec'[t][i][2] = "disconnected"})

\* C39: a step takes status from connected or connecting to disconnected
\* exactly when one disconnected callback is invoked in it, whether the step
\* belongs to connect(), disconnect() or an assignment to timeout, url or
\* proxy_url
C39_DisconnectedCallbackPerChange ==
    [][IF status \in {"connected", "connecting"} /\ status' = "disconnected"
       THEN \E t \in Tasks : Fired(t) = 1 /\ \A u \in Tasks \ {t} : Fired(u) = 0
       ELSE \A t \in Tasks : Fired(t) = 0]_vars

(***************************************************************************)
(* set_event_handler and unset_event_handler of several callers on an       *)
(* adapter whose _subscribe and _unsubscribe talk to the daemon: each is a  *)
(* suspension point                                                         *)
(***************************************************************************)

MaxOverlapOps == 4

\* `await self._subscribe(event)` / `await self._unsubscribe(event)`: the call
\* reaches the daemon and the caller is suspended until it answers
Invoke(m, t, name, e, at) ==
    Emit([m EXCEPT !.protocol[e] = Append(@, name), !.pc[t] = at], t, <<name, e>>)

\* set_event_handler after `await self._subscribe(event)`: the handler is
\* appended unless the list of the event has it
AddHandler(m, t, e, h) ==
    LET m1 == GetItem(m, e)
    IN IF In(h, m1.event_handlers[e].handlers)
       THEN Finish(m1, t, Ok)
       ELSE Finish([m1 EXCEPT !.event_handlers[e].handlers = Append(@, h)], t, Ok)

\* A caller awaits rpc.set_event_handler(e, h): up to the await of _subscribe
SetEventHandlerBegin(t, e, h) ==
    /\ Free(t)
    /\ \E m0 \in {Emit(Begin(M, t, "set_event_handler"), t, <<"args", e, h>>)} :
          IF m0.event_handlers[e].key THEN Commit(AddHandler(m0, t, e, h))
          ELSE IF adapter # EventsAdapter
          THEN Commit(Finish(Emit(m0, t, <<"_subscribe", e>>), t, NotImplementedError))
          ELSE Commit(Invoke(m0, t, "_subscribe", e, "subscribe"))

\* _subscribe returned to the set_event_handler of task t
SubscribeReturned(t) ==
    /\ pc[t] = "subscribe"
    /\ \E a \in {rec[t][Idx(rec[t], "args")]} : Commit(AddHandler(M, t, a[2], a[3]))

\* A caller awaits rpc.unset_event_handler(e, h): up to the await of _unsubscribe
UnsetEventHandlerBegin(t, e, h) ==
    /\ Free(t)
    /\ \E m0 \in {GetItem(Emit(Begin(M, t, "unset_event_handler"), t, <<"args", e, h>>), e)} :
       \E m1 \in {IF In(h, m0.event_handlers[e].handlers)
                  THEN [m0 EXCEPT !.event_handlers[e].handlers = Remove(@, h)]
                  ELSE m0} :
          IF m1.event_handlers[e].handlers # <<>> THEN Commit(Finish(m1, t, Ok))
          ELSE \E m2 \in {[m1 EXCEPT !.event_handlers[e].key = FALSE]} :
                  IF adapter # EventsAdapter
                  THEN Commit(Finish(Emit(m2, t, <<"_unsubscribe", e>>), t, NotImplementedError))
                  ELSE Commit(Invoke(m2, t, "_unsubscribe", e, "unsubscribe"))

\* _unsubscribe returned to the unset_event_handler of task t
UnsubscribeReturned(t) ==
    /\ pc[t] = "unsubscribe"
    /\ Commit(Finish(M, t, Ok))

InitOverlap ==
    /\ Constructed(EventsAdapter)
    /\ URLInit(default_url(adapter))
    /\ registered = CallbackNames
    /\ recording = FALSE

OverlapBudget == opsIssued < MaxOverlapOps

OvSet(t, e, h) == OverlapBudget /\ SetEventHandlerBegin(t, e, h)

OvUnset(t, e, h) == OverlapBudget /\ UnsetEventHandlerBegin(t, e, h)

NextOverlap ==
    \/ \E t \in 1..NumCallers, e \in Events, h \in Handlers : OvSet(t, e, h)
    \/ \E t \in 1..NumCallers, e \in Events, h \in Handlers : OvUnset(t, e, h)
    \/ \E t \in 1..NumCallers : SubscribeReturned(t)
    \/ \E t \in 1..NumCallers : UnsubscribeReturned(t)

SpecOverlap == InitOverlap /\ [][NextOverlap]_vars

\* C40: _subscribe is never invoked for an event that is subscribed, however
\* the set_event_handler calls overlap: no two _subscribe calls for an event
\* follow each other without an _unsubscribe between them; and whenever no
\* call is in progress, an event with a registered handler is subscribed: the
\* last call made for it is _subscribe
C40_SubscribedOnce ==
    \A e \in Events :
        /\ \A i \in 1..(Len(protocol[e]) - 1) :
               ~(protocol[e][i] = "_subscribe" /\ protocol[e][i + 1] = "_subscribe")
        /\ ((\A t \in Tasks : Free(t)) /\ event_handlers[e].handlers # <<>>) =>
               /\ protocol[e] # <<>>
               /\ protocol[e][Len(protocol[e])] = "_subscribe"
====
